---- MODULE Spec2Model ----
(***************************************************************************)
(* A model of the state-synchronisation and event-distribution engine of   *)
(* cmus_rich: the event bus (core/events.py), the poller and lifecycle of  *)
(* the application (core/app.py) and the state store (core/state.py).      *)
(* All concurrency is cooperative (asyncio): a step of the model is the    *)
(* code a task runs between two suspension points.                         *)
(***************************************************************************)
EXTENDS Integers, Sequences, FiniteSets, TLC

\* ------------------------------------------------------------------ bounds
\* Events emitted in the bus specification.
MaxEmit == 2
\* Events emitted in the history specification (beyond the history capacity).
MaxEmitHist == 102
\* Handlers registered for one event type at a time.
MaxSubs == 2
\* subscribe and unsubscribe calls in a run.
MaxRegOps == 3
\* Observers subscribed to the state store.
MaxObservers == 2
\* update() calls made by tasks in a run.
MaxUpdates == 2
\* Longest play history of a store that is saved (beyond the 1000 kept).
MaxPlays == 1002
\* Longest queue of the QueueManager.
MaxQueue == 2
\* Cache(max_size=..., ttl=...): the capacity and the time to live, in clock
\* ticks, of the cache under test, and the number of get/set calls in a run.
CacheMaxSize == 2
CacheTtl == 3
MaxCacheOps == 4
\* get, set and clear calls made beside the get_or_compute calls of the tasks.
MaxDirectCalls == 1
\* Calls on the disk cache, and damages done to its files, in a run.
MaxDiskOps == 3
MaxLines == 2
MaxAdapterCalls == 3

\* --------------------------------------------------------------- constants
\* EventBus._history_size (events.py:56).
HistorySize == 100
\* asyncio.Queue() is built without a maxsize: 0 means unbounded (events.py:54).
QueueMaxsize == 0
\* save() writes play_history[-1000:] (state.py:69).
HistoryKeep == 1000
\* _start_cmus checks for the socket in `for _ in range(10)` (cmus_interface.py:68).
RetryLimit == 10

\* Two of the fifteen members of EventType (events.py:10-36).
EventTypes == {"track_changed", "volume_changed"}
\* The callables handed to subscribe.
Handlers == {"h1", "h2"}
\* The subscriber that always fails (raises an Exception whenever it is called).
FailingHandlers == {"h1"}
NoEvent == [id |-> 0, type |-> "none"]

\* Config.refresh_rate, 0.1 s, in tenths of a second (config.py:27).
RefreshRate == 1
\* The back-off sleep of _update_loop, 1 s, in tenths of a second (app.py:111).
BackoffInterval == 10

\* PlayerStatus values get_status can return.
PlayerStatuses == {"st_playing", "st_paused"}
\* The observer callbacks handed to AppState.subscribe: o1 only looks at the
\* change; o2 reacts to a change of active_view by calling update() itself, to
\* reset the search text.
Observers == {"o1", "o2", "o3"}
ObserverReenters(o, keys) == o = "o2" /\ "active_view" \in keys
\* o3 raises an Exception whenever it is called.
ObserverRaises(o) == o = "o3"
ReenterArgs == [search_query |-> ""]
\* The cooperative tasks that call update().
Tasks == {"t1", "t2"}
\* The keyword arguments of the update() calls; "volume" is no attribute of
\* AppState, "_observers" is the attribute that holds the observer list.
UpdateArgs ==
    { [active_view |-> "library"],
      [active_view |-> "queue", search_query |-> "abba"],
      [player_status |-> "st_playing", volume |-> 50],
      [_observers |-> <<>>] }

VARIABLES
    \* EventBus fields (events.py:52-57)
    _handlers,      \* dict: event type -> list of handlers (a function on the keys present)
    _queue,         \* asyncio.Queue of events
    _history,       \* list of events
    _processing,    \* bool
    \* the task running EventBus.process_events
    busPc,          \* "idle" | "get" | "for" | "in_handler" | "returned" | "cancelled"
                    \* | "failed" (ended by an exception)
    event,          \* local `event` of process_events
    dpos,           \* position of the list iterator of `for handler in handlers`
    \* history variables of the bus
    nEmitted,       \* number of emit calls so far (the id of the last event)
    nRegOps,        \* number of subscribe and unsubscribe calls so far
    invoked,        \* the handlers called for `event` so far, in call order
    seen,           \* per handler, the ids of the events it was called with, in call order
    snapshot,       \* the handler list of event.type when `event` was dequeued
    dirty,          \* the registry of event.type changed while `event` was dispatched
    \* CMUSRichApp (app.py:32-40) and its tasks
    _running,       \* bool
    connected,      \* CMUSInterface._connected
    appPc,          \* the main task: "new" | "initialized" | "main" | "exited"
    pollPc,         \* the task running _update_loop: "none" | "created" | "polling" |
                    \* "sleep" | "stopped" | "cancelled" | "failed"
    sleepLen,       \* the argument of the asyncio.sleep the poller is in (tenths of a second)
    lastPoll,       \* how the last poll cycle went: "none" | "ok" | "ok_then_error" |
                    \* "error" | "skipped"
    polled,         \* the PlayerStatus the last get_status returned
    \* AppState (state.py:15-38)
    fields,         \* the data fields of the store: name -> value
    _observers,     \* list of observer callbacks
    _lock,          \* asyncio.Lock: [locked, waiters (first come, first served)]
    upd,            \* per task, the stack of its update() calls in progress:
                    \* frames [kw, pc, i], pc "wait" | "notify" | "in_observer"
    nUpdates,       \* number of update() calls made by tasks so far
    notified,       \* every observer notification so far: [o, keys]
    writer,         \* the component whose code last assigned a field of the store
    \* the state file and a second, fresh AppState that loads it (state.py:59-100)
    disk,           \* <<>> when no file exists, else <<document>>
    fresh,          \* the data fields of the fresh store
    loadRaised,     \* whether the last load() ended with an exception
    persistPc,      \* "start" | "saved" | "loaded_self" | "loaded_fresh"
    \* QueueManager (queue.py:26-30)
    queue,          \* list of the tracks of the queue items
    \* Cache (cache.py:16-21)
    cache,          \* dict: key -> value
    access_times,   \* dict: key -> time of the last get hit or set
    now,            \* the clock read by time.time()
    cacheLog,       \* every get/set/clear so far: [op, key, res]
    max_size,       \* Cache.max_size
    goc,            \* per task, its get_or_compute call: [pc, key, value],
                    \* pc "idle" | "compute" | "set" | "returned"
    lastDone,       \* [key, at]: the get_or_compute call that returned in the last
                    \* operation on the cache; key "" when that was something else
    \* PersistentCache (cache.py:72-116)
    files,          \* the cache directory: file name -> content
    pLog,           \* every call so far: [inst, op, key, res, raised]
    \* _parse_status (cmus_interface.py:115-148)
    statusText,     \* the output handed to _parse_status: a list of lines
    parsed,         \* what the call made of it: [raised, status]
    \* CMUSInterface (cmus_interface.py:40-43) and the processes around it
    _connected,     \* bool
    _process,       \* "None" or the process the adapter started
    _socket_path,   \* "None" or the discovery path found by connect()
    sockets,        \* the discovery paths that exist: path -> the process listening
    procs,          \* per cmus process: "none" | "running" | "exited"
    connPc,         \* connect(): "idle" | "polling" (in the loop of _start_cmus)
    attempts,       \* passes of the loop of _start_cmus completed by the connect() in
                    \* progress (0 when none is)
    adapterLog,     \* every finished call so far: [op, raised, text, status, argv, run]
    remotes,        \* number of cmus-remote invocations spawned so far
    terminated,     \* the processes terminate() was called on while they ran
    \* the configuration, the instance lock and the life of the process (app.py:42-84,
    \* 118-184)
    config,         \* ConfigManager.config: [single_instance, auto_save]
    lockFile,       \* ~/.cache/cmus-rich/instance.lock: "absent", or its content:
                    \* the pid of an instance, "dead" (a pid no process has), "garbage"
    instPc,         \* per instance started by a user, where it is in
                    \* _ensure_single_instance and after: "idle" | "exists" | "read" |
                    \* "kill" | "unlink_stale" | "unlink_invalid" | "write" | "running" |
                    \* "refused" | "crashed" | "exited" | "killed"
    pidRead,        \* per instance, the pid it read from the lock file
    requested,      \* a shutdown signal was delivered to the handler
    shutdownRaised, \* "no", or the step of shutdown() that raised: "await_task" | "save"
    watchPc,        \* the task running watch_changes: "none" | "running" | "failed" |
                    \* "cancelled"
    stopAt          \* the number of events emitted before stop_processing() was first
                    \* called, -1 as long as it was not

busVars == <<_handlers, _queue, _history, _processing, busPc, event, dpos,
             nEmitted, nRegOps, invoked, seen, snapshot, dirty>>

appVars == <<_running, connected, appPc, pollPc, sleepLen, lastPoll, polled>>

storeVars == <<fields, _observers, _lock, upd, nUpdates, notified, writer>>

diskVars == <<disk, fresh, loadRaised, persistPc>>

cacheVars == <<cache, access_times, now, cacheLog, max_size, goc, lastDone>>

pcacheVars == <<files, pLog>>

parseVars == <<statusText, parsed>>

adapterVars == <<_connected, _process, _socket_path, sockets, procs, connPc, attempts,
                 adapterLog, remotes, terminated>>

procVars == <<config, lockFile, instPc, pidRead, requested, shutdownRaised, watchPc>>

\* PersistentCache, and what later sections add.
extVars == <<pcacheVars, parseVars, adapterVars, procVars, stopAt>>

\* The features without the configuration and the process.
OtherFeatures ==
    <<diskVars, queue, cacheVars, pcacheVars, parseVars, adapterVars, stopAt>>

\* What belongs to the components around the core: state file, QueueManager, Cache.
featureVars == <<diskVars, queue, cacheVars, extVars>>

vars == <<busVars, appVars, storeVars, featureVars>>

\* Everything but the PersistentCache, the parser and the adapter.
coreVars ==
    <<busVars, appVars, storeVars, diskVars, queue, cacheVars, procVars, stopAt>>

\* ------------------------------------------------------------ pure helpers
Min(a, b) == IF a < b THEN a ELSE b

RECURSIVE IndexOf(_, _, _)
\* list.index: the first position of x in s at or after i, 0 when absent.
IndexOf(s, x, i) ==
    IF i > Len(s) THEN 0
    ELSE IF s[i] = x THEN i
    ELSE IndexOf(s, x, i + 1)

\* list.remove(x): drops the first occurrence of x.
ListRemove(s, x) ==
    LET i == IndexOf(s, x, 1)
    IN  SubSeq(s, 1, i - 1) \o SubSeq(s, i + 1, Len(s))

\* self._handlers.get(event_type, [])
HandlersGet(ty) == IF ty \in DOMAIN _handlers THEN _handlers[ty] ELSE <<>>

\* A queue built with maxsize=1.
QueueFull_Bounded(q) == Len(q) >= 1

\* asyncio.Queue.full(): maxsize <= 0 is an unbounded queue.
QueueFull(q) == QueueMaxsize > 0 /\ Len(q) >= QueueMaxsize

\* A LifoQueue: the newest event is taken first.
QueuePut_Front(q, e) == <<e>> \o q

\* asyncio.Queue.put_nowait on the FIFO deque: append on the right.
QueuePut(q, e) == Append(q, e)

\* asyncio.Queue.get: popleft.
QueueFront(q) == Head(q)
QueueRest(q) == Tail(q)

\* Eviction at capacity instead of over capacity.
HistoryAppend_OffByOne(h, e) ==
    LET a == Append(h, e)
    IN  IF Len(a) >= HistorySize THEN Tail(a) ELSE a

\* emit, lines 73-75: append, then drop the oldest entry once over capacity.
HistoryAppend(h, e) ==
    LET a == Append(h, e)
    IN  IF Len(a) > HistorySize THEN Tail(a) ELSE a

\* ---------------------------------------------------------------- EventBus
InitBus ==
    /\ _handlers = [t \in {} |-> <<>>]
    /\ _queue = <<>>
    /\ _history = <<>>
    /\ _processing = FALSE
    /\ busPc = "idle"
    /\ event = NoEvent
    /\ dpos = 0
    /\ nEmitted = 0
    /\ nRegOps = 0
    /\ invoked = <<>>
    /\ seen = [h \in Handlers |-> <<>>]
    /\ snapshot = <<>>
    /\ dirty = FALSE

Dispatching == busPc \in {"for", "in_handler"}

\* EventBus.subscribe: any task may call it while process_events is suspended,
\* and so may the handler that is being invoked; between two handler calls
\* (lines 88-96) process_events does not yield, so nothing else runs there.
Subscribe(ty, h) ==
    /\ busPc # "for"
    /\ Len(HandlersGet(ty)) < MaxSubs
    /\ _handlers' = [t \in DOMAIN _handlers \cup {ty} |->
                        IF t = ty THEN Append(HandlersGet(ty), h) ELSE _handlers[t]]
    /\ dirty' = (dirty \/ (Dispatching /\ event.type = ty))
    /\ nRegOps' = nRegOps + 1
    /\ UNCHANGED <<_queue, _history, _processing, busPc, event, dpos, nEmitted,
                   invoked, seen, snapshot>>
    /\ UNCHANGED <<appVars, storeVars, featureVars>>

\* EventBus.unsubscribe: a no-op for a type never subscribed; list.remove raises
\* ValueError (and changes nothing) when the handler is not in the list.
Unsubscribe(ty, h) ==
    /\ busPc # "for"
    /\ ty \in DOMAIN _handlers
    /\ IF IndexOf(_handlers[ty], h, 1) # 0
       THEN /\ _handlers' = [_handlers EXCEPT ![ty] = ListRemove(@, h)]
            /\ dirty' = (dirty \/ (Dispatching /\ event.type = ty))
       ELSE UNCHANGED <<_handlers, dirty>>
    /\ nRegOps' = nRegOps + 1
    /\ UNCHANGED <<_queue, _history, _processing, busPc, event, dpos, nEmitted,
                   invoked, seen, snapshot>>
    /\ UNCHANGED <<appVars, storeVars, featureVars>>

\* EventBus.emit: history, then queue.put, which suspends only while the queue is full.
Emit(ty) ==
    LET e == [id |-> nEmitted + 1, type |-> ty]
    IN  /\ ~QueueFull(_queue)
        /\ _history' = HistoryAppend(_history, e)
        /\ _queue' = QueuePut(_queue, e)
        /\ nEmitted' = nEmitted + 1
        /\ UNCHANGED <<_handlers, _processing, busPc, event, dpos, nRegOps, invoked,
                       seen, snapshot, dirty>>
        /\ UNCHANGED <<appVars, storeVars, featureVars>>

\* process_events is started as a task: line 82, then the first test of the loop.
ProcessEvents ==
    /\ busPc = "idle"
    /\ _processing' = TRUE
    /\ busPc' = "get"
    /\ UNCHANGED <<_handlers, _queue, _history, event, dpos, nEmitted, nRegOps,
                   invoked, seen, snapshot, dirty>>
    /\ UNCHANGED <<appVars, storeVars, featureVars>>

\* `event = await self._queue.get()` returns; line 87 binds `handlers` to the list
\* of the registry itself (or to a fresh empty list), and the for loop starts.
Get ==
    /\ busPc = "get"
    /\ _queue # <<>>
    /\ event' = QueueFront(_queue)
    /\ _queue' = QueueRest(_queue)
    /\ dpos' = 0
    /\ snapshot' = IF QueueFront(_queue).type \in DOMAIN _handlers
                   THEN _handlers[QueueFront(_queue).type] ELSE <<>>
    /\ dirty' = FALSE
    /\ invoked' = <<>>
    /\ busPc' = "for"
    /\ UNCHANGED <<_handlers, _history, _processing, nEmitted, nRegOps, seen>>
    /\ UNCHANGED <<appVars, storeVars, featureVars>>

\* A registry that is not keyed by the event's type.
DispatchList_AnyType(ty) ==
    IF DOMAIN _handlers = {} THEN <<>>
    ELSE _handlers[CHOOSE t \in DOMAIN _handlers : TRUE]

\* Line 87: the list the for loop runs over.
DispatchList(ty) == HandlersGet(ty)

\* The list iterator of the for loop: it keeps an index into the list and stops
\* once the index is no longer inside it.
IterHasNext(list, pos) == pos < Len(list)
IterItem(list, pos) == list[pos + 1]
IterAdvance(pos) == pos + 1

\* The list iterator yields the next handler, which is called (lines 88-93).
CallHandler ==
    /\ busPc = "for"
    /\ IterHasNext(DispatchList(event.type), dpos)
    /\ LET h == IterItem(DispatchList(event.type), dpos)
       IN  /\ invoked' = Append(invoked, h)
           /\ seen' = [seen EXCEPT ![h] = Append(@, event.id)]
    /\ dpos' = IterAdvance(dpos)
    /\ busPc' = "in_handler"
    /\ UNCHANGED <<_handlers, _queue, _history, _processing, event, nEmitted,
                   nRegOps, snapshot, dirty>>
    /\ UNCHANGED <<appVars, storeVars, featureVars>>

\* No try/except around the call: the exception ends process_events.
AfterHandler_NoCatch(raised) == IF raised THEN "failed" ELSE "for"

\* Where process_events goes on when the handler it called has ended: a handler
\* that raised an Exception is caught by lines 94-96, which print and go on with
\* the loop just as after a normal return.
AfterHandler(raised) == "for"

\* The handler returns, or raises.
HandlerDone ==
    /\ busPc = "in_handler"
    /\ busPc' = AfterHandler(invoked[Len(invoked)] \in FailingHandlers)
    /\ UNCHANGED <<_handlers, _queue, _history, _processing, event, dpos, nEmitted,
                   nRegOps, invoked, seen, snapshot, dirty>>
    /\ UNCHANGED <<appVars, storeVars, featureVars>>

\* The iterator is exhausted: back to `while self._processing`.
ForEnd ==
    /\ busPc = "for"
    /\ ~IterHasNext(DispatchList(event.type), dpos)
    /\ busPc' = IF _processing THEN "get" ELSE "returned"
    /\ UNCHANGED <<_handlers, _queue, _history, _processing, event, dpos, nEmitted,
                   nRegOps, invoked, seen, snapshot, dirty>>
    /\ UNCHANGED <<appVars, storeVars, featureVars>>

\* The first call of stop_processing is remembered.
StopAt == IF stopAt = -1 THEN nEmitted ELSE stopAt

\* EventBus.stop_processing
StopProcessing ==
    /\ _processing' = FALSE
    /\ stopAt' = StopAt
    /\ UNCHANGED <<_handlers, _queue, _history, busPc, event, dpos, nEmitted,
                   nRegOps, invoked, seen, snapshot, dirty>>
    /\ UNCHANGED <<appVars, storeVars, procVars>>
    /\ UNCHANGED <<diskVars, queue, cacheVars, pcacheVars, parseVars, adapterVars>>

\* task.cancel(): CancelledError is raised at the await the task is suspended in;
\* it is a BaseException, which `except Exception` does not catch.
CancelBus ==
    /\ busPc \in {"get", "in_handler"}
    /\ busPc' = "cancelled"
    /\ UNCHANGED <<_handlers, _queue, _history, _processing, event, dpos, nEmitted,
                   nRegOps, invoked, seen, snapshot, dirty>>
    /\ UNCHANGED <<appVars, storeVars, featureVars>>

DispatchStep == Get \/ CallHandler \/ HandlerDone \/ ForEnd

NextBus ==
    \/ \E ty \in EventTypes, h \in Handlers : nRegOps < MaxRegOps /\ Subscribe(ty, h)
    \/ \E ty \in EventTypes, h \in Handlers : nRegOps < MaxRegOps /\ Unsubscribe(ty, h)
    \/ \E ty \in EventTypes : nEmitted < MaxEmit /\ Emit(ty)
    \/ ProcessEvents
    \/ Get
    \/ CallHandler
    \/ HandlerDone
    \/ ForEnd
    \/ StopProcessing
    \/ CancelBus

\* ---------------------------------------------------------------- AppState
\* The data fields of the dataclass and their defaults (state.py:18-35); the
\* two non-durable caches are left out.
StoreDefaults ==
    [player_status |-> "None", current_queue |-> <<>>, active_view |-> "dashboard",
     search_query |-> "", playlists |-> [n \in {} |-> <<>>], play_history |-> <<>>,
     statistics |-> [n \in {} |-> 0]]

InitStoreWith(f) ==
    /\ fields = f
    /\ _observers = <<>>
    /\ _lock = [locked |-> FALSE, waiters |-> <<>>]
    /\ upd = [t \in Tasks |-> <<>>]
    /\ nUpdates = 0
    /\ notified = <<>>
    /\ writer = "none"

InitStore == InitStoreWith(StoreDefaults)

\* AppState.subscribe
StoreSubscribe(o) ==
    /\ Len(_observers) < MaxObservers
    /\ _observers' = Append(_observers, o)
    /\ UNCHANGED <<fields, _lock, upd, nUpdates, notified, writer>>
    /\ UNCHANGED <<busVars, appVars, featureVars>>

\* Only one of the named fields is assigned before the task is suspended.
ApplyUpdate_Partial(f, kw) ==
    IF DOMAIN kw \cap DOMAIN f = {} THEN f
    ELSE LET k == CHOOSE x \in DOMAIN kw \cap DOMAIN f : TRUE
         IN  [f EXCEPT ![k] = kw[k]]

\* The store is rebuilt from the keyword arguments: the other fields fall back
\* to their defaults.
ApplyUpdate_Rebuild(f, kw) ==
    [k \in DOMAIN f |-> IF k \in DOMAIN kw THEN kw[k] ELSE StoreDefaults[k]]

\* Lines 47-49: setattr for every key that is an attribute of the store, in one
\* run without a suspension point; a key that is no attribute is skipped.
ApplyUpdate(f, kw) ==
    [k \in DOMAIN f |-> IF k \in DOMAIN kw THEN kw[k] ELSE f[k]]

\* hasattr(self, "_observers") holds as well, so line 49 assigns that attribute
\* when the call names it.
ApplyObservers(obs, kw) ==
    IF "_observers" \in DOMAIN kw THEN kw["_observers"] ELSE obs

\* asyncio.Lock.acquire takes the lock at once when it is free and nobody waits.
LockFree == ~_lock.locked /\ _lock.waiters = <<>>

TopFrame(t) == upd[t][Len(upd[t])]
SetTop(t, f) == [upd EXCEPT ![t] = [@ EXCEPT ![Len(@)] = f]]

\* A task calls update(**kw): line 46 takes the lock and lines 47-49 apply the
\* fields, or the call queues up for the lock.
UpdateCall(t, kw) ==
    /\ upd[t] = <<>>
    /\ nUpdates' = nUpdates + 1
    /\ IF LockFree
       THEN /\ _lock' = [_lock EXCEPT !.locked = TRUE]
            /\ fields' = ApplyUpdate(fields, kw)
            /\ _observers' = ApplyObservers(_observers, kw)
            /\ writer' = "AppState"
            /\ upd' = [upd EXCEPT ![t] = <<[kw |-> kw, pc |-> "notify", i |-> 0]>>]
       ELSE /\ _lock' = [_lock EXCEPT !.waiters = Append(@, <<t, 1>>)]
            /\ upd' = [upd EXCEPT ![t] = <<[kw |-> kw, pc |-> "wait", i |-> 0]>>]
            /\ UNCHANGED <<fields, _observers, writer>>
    /\ UNCHANGED notified
    /\ UNCHANGED <<busVars, appVars, featureVars>>

\* The lock was released and this call is the first waiter: it takes the lock
\* and applies its fields.
UpdateWake(t) ==
    /\ upd[t] # <<>>
    /\ TopFrame(t).pc = "wait"
    /\ ~_lock.locked
    /\ _lock.waiters # <<>>
    /\ Head(_lock.waiters) = <<t, Len(upd[t])>>
    /\ _lock' = [locked |-> TRUE, waiters |-> Tail(_lock.waiters)]
    /\ fields' = ApplyUpdate(fields, TopFrame(t).kw)
    /\ _observers' = ApplyObservers(_observers, TopFrame(t).kw)
    /\ writer' = "AppState"
    /\ upd' = SetTop(t, [TopFrame(t) EXCEPT !.pc = "notify"])
    /\ UNCHANGED <<nUpdates, notified>>
    /\ UNCHANGED <<busVars, appVars, featureVars>>

\* Lines 52-53, inside `async with self._lock`: the next observer is called with
\* the keys of the call. An observer that calls update() itself starts a nested
\* call, which finds the lock taken and queues up for it. Nothing catches what
\* an observer raises: the exception leaves the for loop, `async with` releases
\* the lock and update() ends with that exception.
NotifyNext(t) ==
    /\ upd[t] # <<>>
    /\ TopFrame(t).pc = "notify"
    /\ TopFrame(t).i < Len(_observers)
    /\ LET f == TopFrame(t)
           o == _observers[f.i + 1]
           outer == [f EXCEPT !.pc = "in_observer", !.i = f.i + 1]
       IN  /\ notified' = Append(notified, [o |-> o, keys |-> DOMAIN f.kw])
           /\ IF ObserverRaises(o)
              THEN /\ upd' = [upd EXCEPT ![t] = SubSeq(@, 1, Len(@) - 1)]
                   /\ _lock' = [_lock EXCEPT !.locked = FALSE]
              ELSE IF ObserverReenters(o, DOMAIN f.kw)
              THEN /\ upd' = [upd EXCEPT ![t] =
                                 Append(SubSeq(@, 1, Len(@) - 1) \o <<outer>>,
                                        [kw |-> ReenterArgs, pc |-> "wait", i |-> 0])]
                   /\ _lock' = [_lock EXCEPT
                                   !.waiters = Append(@, <<t, Len(upd[t]) + 1>>)]
              ELSE /\ upd' = SetTop(t, outer)
                   /\ UNCHANGED _lock
    /\ UNCHANGED <<fields, _observers, nUpdates, writer>>
    /\ UNCHANGED <<busVars, appVars, featureVars>>

\* The observer returns to line 52.
ObserverReturn(t) ==
    /\ upd[t] # <<>>
    /\ TopFrame(t).pc = "in_observer"
    /\ upd' = SetTop(t, [TopFrame(t) EXCEPT !.pc = "notify"])
    /\ UNCHANGED <<fields, _observers, _lock, nUpdates, notified, writer>>
    /\ UNCHANGED <<busVars, appVars, featureVars>>

\* The for loop is over: `async with` releases the lock and update() returns.
UpdateReturn(t) ==
    /\ upd[t] # <<>>
    /\ TopFrame(t).pc = "notify"
    /\ TopFrame(t).i >= Len(_observers)
    /\ _lock' = [_lock EXCEPT !.locked = FALSE]
    /\ upd' = [upd EXCEPT ![t] = SubSeq(@, 1, Len(@) - 1)]
    /\ UNCHANGED <<fields, _observers, nUpdates, notified, writer>>
    /\ UNCHANGED <<busVars, appVars, featureVars>>

\* A step of an update() call that is under way.
UpdateProgress ==
    \E t \in Tasks : UpdateWake(t) \/ NotifyNext(t) \/ ObserverReturn(t) \/ UpdateReturn(t)

NextStore ==
    \/ \E o \in Observers : StoreSubscribe(o)
    \/ \E t \in Tasks, kw \in UpdateArgs : nUpdates < MaxUpdates /\ UpdateCall(t, kw)
    \/ \E t \in Tasks : UpdateWake(t)
    \/ \E t \in Tasks : NotifyNext(t)
    \/ \E t \in Tasks : ObserverReturn(t)
    \/ \E t \in Tasks : UpdateReturn(t)

\* AppState.update_player_status: the field is assigned, nothing else happens.
UpdatePlayerStatus(f, status) == [f EXCEPT !["player_status"] = status]

\* ---------------------------------------------- the state file (state.py)
\* A value held by statistics (dict[str, Any]): a number, or a dict whose keys
\* are strings or integers.
StatValue(kind, keys) == [kind |-> kind, keys |-> keys, val |-> 3]

\* json.dumps followed by json.loads, on one such value: a number and a dict
\* with string keys come back equal, the keys of a dict with integer keys come
\* back as strings.
JsonValue(v) == IF v.kind = "dict" THEN [v EXCEPT !.keys = "str"] ELSE v

\* The same on a dict with string keys, value by value.
JsonMap(m) == [k \in DOMAIN m |-> JsonValue(m[k])]

\* h[:k], the first k entries.
TailSlice_Head(h, k) == SubSeq(h, 1, Min(Len(h), k))

\* h[-k:], the slice of line 69: it starts at max(0, len(h) - k).
TailSlice(h, k) ==
    SubSeq(h, (IF Len(h) > k THEN Len(h) - k ELSE 0) + 1, Len(h))

\* Lines 67-75 and 77-78: the document written, as json.loads reads it back.
SaveDoc(f) ==
    [playlists |-> f.playlists,
     play_history |-> TailSlice(f.play_history, HistoryKeep),
     statistics |-> JsonMap(f.statistics),
     ui_state |-> [active_view |-> f.active_view, search_query |-> f.search_query]]

\* dict.get(k, default)
DocGet(d, k, default) == IF k \in DOMAIN d THEN d[k] ELSE default

\* The ui fields are looked up in the document itself.
UiState_TopLevel(d) == d

\* Line 95.
UiState(d) == DocGet(d, "ui_state", <<>>)

\* Lines 91-97: the five durable fields are assigned from the document.
LoadDoc(f, d) ==
    [f EXCEPT !.playlists = DocGet(d, "playlists", <<>>),
              !.play_history = DocGet(d, "play_history", <<>>),
              !.statistics = DocGet(d, "statistics", <<>>),
              !.active_view = DocGet(UiState(d), "active_view", "dashboard"),
              !.search_query = DocGet(UiState(d), "search_query", "")]

\* The FileNotFoundError leaves load().
OnMissingFile_Raise(f) == [fields |-> f, raised |-> TRUE]

\* Lines 99-100: FileNotFoundError is caught and passed over.
OnMissingFile(f) == [fields |-> f, raised |-> FALSE]

\* load() on a store with fields f when the disk holds dk.
LoadOutcome(f, dk) ==
    IF dk = <<>> THEN OnMissingFile(f)
    ELSE [fields |-> LoadDoc(f, dk[1]), raised |-> FALSE]

\* ------------------------------------------------------------- CMUSRichApp
\* The pid of the application and the instances a user may start beside it.
AppPid == "app"
Instances == {"i1", "i2"}

\* The instances whose process exists.
LivePcs == {"exists", "read", "kill", "unlink_stale", "unlink_invalid", "write", "running"}
Live == {i \in Instances : instPc[i] \in LivePcs}

InitProcWith(cfg, content) ==
    /\ config = cfg
    /\ lockFile = content
    /\ instPc = [i \in Instances |-> "idle"]
    /\ pidRead = [i \in Instances |-> "none"]
    /\ requested = FALSE
    /\ shutdownRaised = "no"
    /\ watchPc = "none"

\* Config(): single_instance and auto_save are on unless the file says otherwise.
ConfigDefaults == [single_instance |-> TRUE, auto_save |-> TRUE]

InitProc == InitProcWith(ConfigDefaults, "absent")

InitApp ==
    /\ _running = FALSE
    /\ connected = FALSE
    /\ appPc = "new"
    /\ pollPc = "none"
    /\ sleepLen = 0
    /\ lastPoll = "none"
    /\ polled = "None"

\* _ensure_single_instance run by the process `me` without another process
\* acting meanwhile, on a lock file of the given content: a pid that a live
\* process has ends the start (line 142), anything else is removed (lines 145,
\* 148) and the own pid is written (lines 151-154).
EnsureSingleInstance(content, me, live) ==
    IF content \notin {"absent", "garbage"} /\ content \in live
    THEN [exit |-> TRUE, file |-> content]
    ELSE [exit |-> FALSE, file |-> me]

\* No try/except around connect(): its exception leaves initialize().
AfterConnectRaised_Propagate == "crashed"

\* Lines 51-53: the exception of connect() is caught, a warning is printed and
\* initialize() goes on with line 56.
AfterConnectRaised == "continue"

\* initialize(): the instance check when configured, connect() (it succeeds or
\* raises), the signal handlers, the saved state.
Initialize(raised) ==
    /\ appPc = "new"
    /\ LET lock == IF config.single_instance
                   THEN EnsureSingleInstance(lockFile, AppPid, Live)
                   ELSE [exit |-> FALSE, file |-> lockFile]
           goes == IF raised THEN AfterConnectRaised ELSE "continue"
           out  == LoadOutcome(fields, disk)
       IN  /\ lockFile' = lock.file
           /\ IF lock.exit
              THEN /\ appPc' = "refused"
                   /\ UNCHANGED <<connected, fields, writer, loadRaised>>
              ELSE IF goes # "continue"
              THEN /\ appPc' = goes
                   /\ UNCHANGED <<connected, fields, writer, loadRaised>>
              ELSE /\ connected' = ~raised
                   /\ fields' = out.fields
                   /\ writer' = IF disk = <<>> THEN writer ELSE "AppState"
                   /\ loadRaised' = out.raised
                   /\ appPc' = IF out.raised THEN "crashed" ELSE "initialized"
    /\ UNCHANGED <<_running, pollPc, sleepLen, lastPoll, polled>>
    /\ UNCHANGED <<_observers, _lock, upd, nUpdates, notified>>
    /\ UNCHANGED <<disk, fresh, persistPc, queue, cacheVars>>
    /\ UNCHANGED <<pcacheVars, parseVars, adapterVars, stopAt>>
    /\ UNCHANGED <<config, instPc, pidRead, requested, shutdownRaised, watchPc>>
    /\ UNCHANGED busVars

\* run(), lines 63-72: the flag is set and the background tasks are created, the
\* configuration watcher among them when auto_save is on.
Run ==
    /\ appPc = "initialized"
    /\ appPc' = "main"
    /\ _running' = TRUE
    /\ pollPc' = "created"
    /\ watchPc' = IF config.auto_save THEN "running" ELSE "none"
    /\ UNCHANGED <<connected, sleepLen, lastPoll, polled>>
    /\ UNCHANGED <<config, lockFile, instPc, pidRead, requested, shutdownRaised>>
    /\ UNCHANGED <<busVars, storeVars, OtherFeatures>>

\* _signal_handler: SIGTERM or SIGINT once the handlers are installed.
Signal ==
    /\ appPc \in {"initialized", "main"}
    /\ _running' = FALSE
    /\ requested' = TRUE
    /\ UNCHANGED <<connected, appPc, pollPc, sleepLen, lastPoll, polled>>
    /\ UNCHANGED <<config, lockFile, instPc, pidRead, shutdownRaised, watchPc>>
    /\ UNCHANGED <<busVars, storeVars, OtherFeatures>>

\* watch_changes (config.py:208-220) ends with an exception: stat() on a file
\* removed after the exists() test, or a watcher callback that raises.
WatcherFails ==
    /\ watchPc = "running"
    /\ watchPc' = "failed"
    /\ UNCHANGED <<config, lockFile, instPc, pidRead, requested, shutdownRaised>>
    /\ UNCHANGED <<busVars, appVars, storeVars, OtherFeatures>>

\* `while True`: the flag is never looked at.
LoopCondition_Always == TRUE

\* `while self._running` of _update_loop.
LoopCondition == _running

\* No try/except in the loop: the exception ends the task.
AfterCycleError_Crash == "failed"

\* What follows an exception raised in the try block: line 108 catches it and
\* line 111 sleeps.
AfterCycleError == "sleep"

\* The sleep that ends a poll cycle: line 106, or line 111 after an exception.
SleepAfter(raised) == IF raised THEN BackoffInterval ELSE RefreshRate

\* The head of the loop, lines 88-92, reached when the task first runs and when a
\* sleep ends: leave, or issue get_status, or (not connected) sleep again.
PollerLoop ==
    /\ pollPc \in {"created", "sleep"}
    /\ IF ~LoopCondition
       THEN /\ pollPc' = "stopped"
            /\ UNCHANGED <<sleepLen, lastPoll>>
       ELSE IF connected
       THEN /\ pollPc' = "polling"
            /\ UNCHANGED <<sleepLen, lastPoll>>
       ELSE /\ pollPc' = "sleep"
            /\ sleepLen' = SleepAfter(FALSE)
            /\ lastPoll' = "skipped"
    /\ UNCHANGED <<_running, connected, appPc, polled>>
    /\ UNCHANGED <<busVars, storeVars, featureVars>>

\* get_status returns a status: line 93 stores it; lines 96-103 print, which may
\* raise in its turn; then the sleep of line 106 or of line 111.
PollOk(status, printRaises) ==
    /\ pollPc = "polling"
    /\ polled' = status
    /\ fields' = UpdatePlayerStatus(fields, status)
    /\ lastPoll' = IF printRaises THEN "ok_then_error" ELSE "ok"
    /\ pollPc' = IF printRaises THEN AfterCycleError ELSE "sleep"
    /\ sleepLen' = SleepAfter(printRaises)
    /\ UNCHANGED <<_running, connected, appPc>>
    /\ writer' = "AppState"
    /\ UNCHANGED <<_observers, _lock, upd, nUpdates, notified>>
    /\ UNCHANGED <<busVars, featureVars>>

\* get_status raises (the command failed, the output did not parse).
PollFail ==
    /\ pollPc = "polling"
    /\ lastPoll' = "error"
    /\ pollPc' = AfterCycleError
    /\ sleepLen' = SleepAfter(TRUE)
    /\ UNCHANGED <<_running, connected, appPc, polled>>
    /\ UNCHANGED <<busVars, storeVars, featureVars>>

\* task.cancel() followed by `await task`: CancelledError is thrown into the task
\* at the await it is suspended in (or before it ever ran) and ends it.
Cancelled(pc) ==
    IF pc \in {"none", "stopped", "returned", "failed", "cancelled"} THEN pc
    ELSE "cancelled"

\* `await task` (line 165) on a task that was cancelled a line before: the
\* CancelledError of a task that was still running is caught (line 166); a task
\* that had ended with an exception hands that exception to the awaiter.
AwaitRaises(pc) == pc = "failed"

\* The main loop of run() (lines 80-81) finds the flag cleared and shutdown()
\* runs from the finally clause: flag, tasks cancelled and awaited in the order
\* they were created, stop_processing, save when auto_save is on (it succeeds or
\* raises), disconnect, lock file removed. An exception leaves shutdown() at the
\* line that raised it.
Shutdown(saveRaises) ==
    /\ appPc = "main"
    /\ ~_running
    /\ appPc' = "exited"
    /\ LET r1 == AwaitRaises(pollPc)
           r2 == r1 \/ AwaitRaises(busPc)
           r3 == r2 \/ AwaitRaises(watchPc)
           sr == ~r3 /\ config.auto_save /\ saveRaises
       IN  /\ pollPc' = Cancelled(pollPc)
           /\ busPc' = IF r1 THEN busPc ELSE Cancelled(busPc)
           /\ watchPc' = IF r2 THEN watchPc ELSE Cancelled(watchPc)
           /\ _processing' = IF r3 THEN _processing ELSE FALSE
           /\ stopAt' = IF r3 THEN stopAt ELSE StopAt
           /\ shutdownRaised' = IF r3 THEN "await_task" ELSE IF sr THEN "save" ELSE "no"
           /\ disk' = IF ~r3 /\ ~sr /\ config.auto_save THEN <<SaveDoc(fields)>> ELSE disk
           /\ connected' = IF r3 \/ sr THEN connected ELSE FALSE
           /\ lockFile' = IF r3 \/ sr THEN lockFile ELSE "absent"
    /\ UNCHANGED <<_running, sleepLen, lastPoll, polled>>
    /\ UNCHANGED <<_handlers, _queue, _history, event, dpos, nEmitted, nRegOps,
                   invoked, seen, snapshot, dirty>>
    /\ UNCHANGED <<fresh, loadRaised, persistPc, queue, cacheVars>>
    /\ UNCHANGED <<pcacheVars, parseVars, adapterVars>>
    /\ UNCHANGED <<config, instPc, pidRead, requested>>
    /\ UNCHANGED storeVars

\* ------------------------------------- instances racing for the lock file
\* The instances are processes of their own: between two of their system calls
\* any other instance may act.
InstStep(i, pc) ==
    /\ instPc' = [instPc EXCEPT ![i] = pc]
    /\ UNCHANGED <<config, requested, shutdownRaised, watchPc>>
    /\ UNCHANGED <<busVars, appVars, storeVars, OtherFeatures>>

\* A user starts the instance: initialize(), lines 45-46, and lines 124-125.
Start(i) ==
    /\ instPc[i] = "idle"
    /\ InstStep(i, IF config.single_instance THEN "exists" ELSE "running")
    /\ UNCHANGED <<lockFile, pidRead>>

\* Line 127: lock_file.exists().
Exists(i) ==
    /\ instPc[i] = "exists"
    /\ InstStep(i, IF lockFile = "absent" THEN "write" ELSE "read")
    /\ UNCHANGED <<lockFile, pidRead>>

\* Lines 130-131: the file is opened and read, the content converted; a file
\* that is gone by now or does not hold a number raises into line 146.
ReadPid(i) ==
    /\ instPc[i] = "read"
    /\ IF lockFile \in {"absent", "garbage"}
       THEN InstStep(i, "unlink_invalid") /\ UNCHANGED pidRead
       ELSE InstStep(i, "kill") /\ pidRead' = [pidRead EXCEPT ![i] = lockFile]
    /\ UNCHANGED lockFile

\* Lines 137-143: os.kill(pid, 0) succeeds on the pid of a live process, and the
\* instance exits; it raises OSError otherwise.
Kill(i) ==
    /\ instPc[i] = "kill"
    /\ InstStep(i, IF pidRead[i] \in Live THEN "refused" ELSE "unlink_stale")
    /\ UNCHANGED <<lockFile, pidRead>>

\* Line 145: the file now at the path is removed; FileNotFoundError, raised in
\* the handler of line 143, is caught at line 146.
UnlinkStale(i) ==
    /\ instPc[i] = "unlink_stale"
    /\ InstStep(i, IF lockFile = "absent" THEN "unlink_invalid" ELSE "write")
    /\ lockFile' = "absent"
    /\ UNCHANGED pidRead

\* Line 148: the same in the handler of line 146, where nothing catches the
\* FileNotFoundError.
UnlinkInvalid(i) ==
    /\ instPc[i] = "unlink_invalid"
    /\ InstStep(i, IF lockFile = "absent" THEN "crashed" ELSE "write")
    /\ lockFile' = "absent"
    /\ UNCHANGED pidRead

\* Lines 151-154: the file is created or overwritten with the own pid, and the
\* instance goes on to run.
WritePid(i) ==
    /\ instPc[i] = "write"
    /\ InstStep(i, "running")
    /\ lockFile' = i
    /\ UNCHANGED pidRead

\* The instance shuts down: lines 180-182 remove the lock file.
InstanceExits(i) ==
    /\ instPc[i] = "running"
    /\ InstStep(i, "exited")
    /\ lockFile' = "absent"
    /\ UNCHANGED pidRead

\* The instance is killed (SIGKILL, power loss): no line of it runs any more.
InstanceKilled(i) ==
    /\ instPc[i] = "running"
    /\ InstStep(i, "killed")
    /\ UNCHANGED <<lockFile, pidRead>>

NextLock ==
    \E i \in Instances :
        \/ Start(i)
        \/ Exists(i)
        \/ ReadPid(i)
        \/ Kill(i)
        \/ UnlinkStale(i)
        \/ UnlinkInvalid(i)
        \/ WritePid(i)
        \/ InstanceExits(i)
        \/ InstanceKilled(i)

NextApp ==
    \/ \E o \in Observers : StoreSubscribe(o)
    \/ \E raised \in BOOLEAN : Initialize(raised)
    \/ Run
    \/ Signal
    \/ WatcherFails
    \/ appPc = "main" /\ ProcessEvents
    \/ PollerLoop
    \/ \E st \in PlayerStatuses, pr \in BOOLEAN : PollOk(st, pr)
    \/ PollFail
    \/ \E saveRaises \in BOOLEAN : Shutdown(saveRaises)

\* The history specification: one producer emitting events of one type past the
\* capacity of the history, and the dispatch loop draining the queue.
NextHist ==
    \/ nEmitted < MaxEmitHist /\ Emit("track_changed")
    \/ ProcessEvents
    \/ Get
    \/ ForEnd

\* --------------------------------------------------- AppState.save / load
InitDisk ==
    /\ disk = <<>>
    /\ fresh = StoreDefaults
    /\ loadRaised = FALSE
    /\ persistPc = "start"

\* The stores that are saved: their durable fields as callers set them.
Plays(n) == [i \in 1..n |-> i]
HistoryLengths == (0..2) \cup ((HistoryKeep - 1)..MaxPlays)
PlaylistChoices == {<<>>, [test |-> <<"track1.mp3", "track2.mp3">>]}
StatisticsChoices ==
    {<<>>, [plays |-> StatValue("int", "none")],
     [by_year |-> StatValue("dict", "str")], [by_year |-> StatValue("dict", "int")]}
UiChoices ==
    {[active_view |-> "dashboard", search_query |-> ""],
     [active_view |-> "library", search_query |-> "abba"]}
PersistStates ==
    { [StoreDefaults EXCEPT !.playlists = p, !.play_history = Plays(n),
                            !.statistics = st, !.active_view = ui.active_view,
                            !.search_query = ui.search_query] :
        p \in PlaylistChoices, n \in HistoryLengths, st \in StatisticsChoices,
        ui \in UiChoices }

\* await state.save(path)
Save ==
    /\ persistPc = "start"
    /\ disk' = <<SaveDoc(fields)>>
    /\ persistPc' = "saved"
    /\ UNCHANGED <<fresh, loadRaised, queue, cacheVars, extVars>>
    /\ UNCHANGED <<busVars, appVars, storeVars>>

\* await store.load(path), on the store that was saved ("self") or on a fresh one.
Load(target) ==
    /\ persistPc \in {"start", "saved"}
    /\ LET out == LoadOutcome(IF target = "self" THEN fields ELSE fresh, disk)
       IN  /\ loadRaised' = out.raised
           /\ IF target = "self"
              THEN /\ fields' = out.fields
                   /\ writer' = IF disk = <<>> THEN writer ELSE "AppState"
                   /\ UNCHANGED fresh
              ELSE /\ fresh' = out.fields
                   /\ UNCHANGED <<fields, writer>>
    /\ persistPc' = IF target = "self" THEN "loaded_self" ELSE "loaded_fresh"
    /\ UNCHANGED <<disk, queue, cacheVars, extVars>>
    /\ UNCHANGED <<_observers, _lock, upd, nUpdates, notified>>
    /\ UNCHANGED <<busVars, appVars>>

NextPersist ==
    \/ Save
    \/ \E target \in {"self", "fresh"} : Load(target)

\* ------------------------------------------------------------ QueueManager
InitQueue == queue = <<>>

\* TrackInfo objects, and the names playlists are saved under.
Tracks == {[file |-> "a.mp3"], [file |-> "b.mp3"]}
PlaylistNames == {"mix", "fav"}

\* list.insert(p, x) for p >= 0: past the end it appends.
ListInsert(s, p, x) ==
    SubSeq(s, 1, Min(p, Len(s))) \o <<x>> \o SubSeq(s, Min(p, Len(s)) + 1, Len(s))

\* list.pop(i), the list that is left (0 <= i < len).
ListPop(s, i) == SubSeq(s, 1, i) \o SubSeq(s, i + 2, Len(s))

\* d[k] = v on a dict.
DictSet(d, k, v) == [x \in DOMAIN d \cup {k} |-> IF x = k THEN v ELSE d[x]]

\* QueueManager._update_state (lines 111-113): the manager assigns the field of
\* the store itself.
UpdateState(f, q) == [f EXCEPT !.current_queue = q]

\* add_track(track, position), lines 32-41; position None appends.
AddTrack(track, hasPosition, position) ==
    /\ Len(queue) < MaxQueue
    /\ queue' = IF hasPosition THEN ListInsert(queue, position, track)
                ELSE Append(queue, track)
    /\ fields' = UpdateState(fields, queue')
    /\ writer' = "QueueManager"
    /\ UNCHANGED <<_observers, _lock, upd, nUpdates, notified>>
    /\ UNCHANGED <<diskVars, cacheVars, extVars, busVars, appVars>>

\* remove_track(index), lines 43-49: an index outside the queue changes nothing.
RemoveTrack(index) ==
    /\ IF 0 <= index /\ index < Len(queue)
       THEN /\ queue' = ListPop(queue, index)
            /\ fields' = UpdateState(fields, queue')
            /\ writer' = "QueueManager"
       ELSE UNCHANGED <<queue, fields, writer>>
    /\ UNCHANGED <<_observers, _lock, upd, nUpdates, notified>>
    /\ UNCHANGED <<diskVars, cacheVars, extVars, busVars, appVars>>

\* move_track(from_idx, to_idx), lines 51-56: an index outside the queue
\* changes nothing.
MoveTrack(from_idx, to_idx) ==
    /\ IF 0 <= from_idx /\ from_idx < Len(queue) /\ 0 <= to_idx /\ to_idx < Len(queue)
       THEN /\ queue' = ListInsert(ListPop(queue, from_idx), to_idx, queue[from_idx + 1])
            /\ fields' = UpdateState(fields, queue')
            /\ writer' = "QueueManager"
       ELSE UNCHANGED <<queue, fields, writer>>
    /\ UNCHANGED <<_observers, _lock, upd, nUpdates, notified>>
    /\ UNCHANGED <<diskVars, cacheVars, extVars, busVars, appVars>>

\* QueueManager.shuffle_history (line 30): nothing ever adds to it.
ShuffleHistory == {}

\* The orders random.shuffle may leave a list of n items in.
ShuffleOrders(n) == {p \in [1..n -> 1..n] : \A i, j \in 1..n : p[i] = p[j] => i = j}

\* smart_shuffle, lines 69-80: the tracks not played recently, in the order
\* random.shuffle left them (order), then the recent ones; the method is not a
\* coroutine and does not call _update_state.
SmartShuffle(order) ==
    LET available == SelectSeq(queue, LAMBDA t : t.file \notin ShuffleHistory)
        recent_items == SelectSeq(queue, LAMBDA t : t.file \in ShuffleHistory)
    IN  /\ order \in ShuffleOrders(Len(available))
        /\ queue' = [i \in 1..Len(available) |-> available[order[i]]] \o recent_items
        /\ UNCHANGED <<fields, writer>>
        /\ UNCHANGED <<_observers, _lock, upd, nUpdates, notified>>
        /\ UNCHANGED <<diskVars, cacheVars, extVars, busVars, appVars>>

\* clear_queue, lines 58-61.
ClearQueue ==
    /\ queue' = <<>>
    /\ fields' = UpdateState(fields, queue')
    /\ writer' = "QueueManager"
    /\ UNCHANGED <<_observers, _lock, upd, nUpdates, notified>>
    /\ UNCHANGED <<diskVars, cacheVars, extVars, busVars, appVars>>

\* save_queue(name), lines 63-67: the manager puts the file names into the
\* playlists dict of the store, then has the store saved.
SaveQueue(name) ==
    /\ fields' = [fields EXCEPT !.playlists =
                     DictSet(@, name, [i \in 1..Len(queue) |-> queue[i].file])]
    /\ writer' = "QueueManager"
    /\ disk' = <<SaveDoc(fields')>>
    /\ UNCHANGED <<fresh, loadRaised, persistPc, queue>>
    /\ UNCHANGED <<_observers, _lock, upd, nUpdates, notified>>
    /\ UNCHANGED <<cacheVars, extVars, busVars, appVars>>

NextQueue ==
    \/ \E track \in Tracks : AddTrack(track, FALSE, 0)
    \/ \E track \in Tracks, position \in 0..MaxQueue : AddTrack(track, TRUE, position)
    \/ \E index \in 0..MaxQueue : RemoveTrack(index)
    \/ \E from_idx \in 0..MaxQueue, to_idx \in 0..MaxQueue : MoveTrack(from_idx, to_idx)
    \/ \E order \in UNION {ShuffleOrders(n) : n \in 0..MaxQueue} : SmartShuffle(order)
    \/ ClearQueue
    \/ \E name \in PlaylistNames : SaveQueue(name)

\* ------------------------------------------------------------------- Cache
NoCall == [key |-> "", at |-> 0]

InitCacheWith(m) ==
    /\ cache = <<>>
    /\ access_times = <<>>
    /\ now = 0
    /\ cacheLog = <<>>
    /\ max_size = m
    /\ goc = [t \in Tasks |-> [pc |-> "idle", key |-> "", value |-> "None"]]
    /\ lastDone = NoCall

InitCache == InitCacheWith(CacheMaxSize)

CacheKeys == {"a", "b", "c"}
CacheValues == {"x"}
\* What a compute function returns: a value, or None.
ComputeResults == {"x", "None"}
\* Time that passes before a call reads the clock: a tick, or more than the ttl.
\* Two calls never read the same time.
ClockSteps == {1, CacheTtl + 1}

\* del d[k] on a dict.
DictDel(d, k) == [x \in DOMAIN d \ {k} |-> d[x]]

\* The key of the entry accessed last.
Oldest_Newest(at) == CHOOSE k \in DOMAIN at : \A j \in DOMAIN at : at[k] >= at[j]

\* Line 45: min(self.access_times.items(), key=lambda x: x[1]), its key.
Oldest(at) == CHOOSE k \in DOMAIN at : \A j \in DOMAIN at : at[k] <= at[j]

\* The access time stays as it was.
TouchOnHit_Keep(at, key, t) == at

\* Line 30: a hit makes the time of the call the access time of the entry.
TouchOnHit(at, key, t) == [at EXCEPT ![key] = t]

\* Line 28: the entry is still valid.
Fresh(at, key, t) == t - at[key] < CacheTtl

\* The cache counts as full only when it holds more than max_size entries.
CacheFull_Strict(c) == Cardinality(DOMAIN c) > max_size

\* Line 43: len(self.cache) >= self.max_size.
CacheFull(c) == Cardinality(DOMAIN c) >= max_size

\* Lines 25-37, the body of get(key) under the lock at time t: the two dicts
\* afterwards and the value returned.
GetEffect(key, t) ==
    IF key \in DOMAIN cache
    THEN IF Fresh(access_times, key, t)
         THEN [cache |-> cache, access_times |-> TouchOnHit(access_times, key, t),
               res |-> cache[key]]
         ELSE [cache |-> DictDel(cache, key), access_times |-> DictDel(access_times, key),
               res |-> "None"]
    ELSE [cache |-> cache, access_times |-> access_times, res |-> "None"]

\* Lines 41-50, the body of set(key, value) under the lock at time t: a full
\* cache loses its oldest entry first, also when key is in the cache already.
SetEffect(key, value, t) ==
    LET full == CacheFull(cache)
        c == IF full THEN DictDel(cache, Oldest(access_times)) ELSE cache
        at == IF full THEN DictDel(access_times, Oldest(access_times))
              ELSE access_times
    IN  [cache |-> DictSet(c, key, value), access_times |-> DictSet(at, key, t)]

\* get(key), lines 23-37, at time now + dt.
CacheGet(key, dt) ==
    /\ Len(cacheLog) < MaxCacheOps
    /\ now' = now + dt
    /\ cache' = GetEffect(key, now').cache
    /\ access_times' = GetEffect(key, now').access_times
    /\ cacheLog' = Append(cacheLog, [op |-> "get", key |-> key,
                                     res |-> GetEffect(key, now').res])
    /\ lastDone' = NoCall
    /\ UNCHANGED <<max_size, goc>>
    /\ UNCHANGED <<diskVars, queue, extVars, busVars, appVars, storeVars>>

\* set(key, value), lines 39-50, at time now + dt.
CacheSet(key, value, dt) ==
    /\ Len(cacheLog) < MaxCacheOps
    /\ now' = now + dt
    /\ cache' = SetEffect(key, value, now').cache
    /\ access_times' = SetEffect(key, value, now').access_times
    /\ cacheLog' = Append(cacheLog, [op |-> "set", key |-> key, res |-> "None"])
    /\ lastDone' = NoCall
    /\ UNCHANGED <<max_size, goc>>
    /\ UNCHANGED <<diskVars, queue, extVars, busVars, appVars, storeVars>>

\* clear(), lines 65-69.
CacheClear ==
    /\ Len(cacheLog) < MaxCacheOps
    /\ cache' = <<>>
    /\ access_times' = <<>>
    /\ cacheLog' = Append(cacheLog, [op |-> "clear", key |-> "", res |-> "None"])
    /\ lastDone' = NoCall
    /\ UNCHANGED <<now, max_size, goc>>
    /\ UNCHANGED <<diskVars, queue, extVars, busVars, appVars, storeVars>>

\* Task t calls get_or_compute(key, compute_func): line 54 runs get(key); a
\* value that is not None is returned at once (line 63), otherwise the call
\* goes on to the compute function.
GocGet(t, key, dt) ==
    /\ goc[t].pc = "idle"
    /\ now' = now + dt
    /\ cache' = GetEffect(key, now').cache
    /\ access_times' = GetEffect(key, now').access_times
    /\ IF GetEffect(key, now').res # "None"
       THEN /\ goc' = [goc EXCEPT ![t] = [pc |-> "returned", key |-> key,
                                         value |-> GetEffect(key, now').res]]
            /\ lastDone' = [key |-> key, at |-> now']
       ELSE /\ goc' = [goc EXCEPT ![t] = [pc |-> "compute", key |-> key, value |-> "None"]]
            /\ lastDone' = NoCall
    /\ UNCHANGED <<cacheLog, max_size>>
    /\ UNCHANGED <<diskVars, queue, extVars, busVars, appVars, storeVars>>

\* Lines 57-60: the compute function is called, or awaited, and returns result.
GocCompute(t, result) ==
    /\ goc[t].pc = "compute"
    /\ goc' = [goc EXCEPT ![t].pc = "set", ![t].value = result]
    /\ UNCHANGED <<cache, access_times, now, cacheLog, max_size, lastDone>>
    /\ UNCHANGED <<diskVars, queue, extVars, busVars, appVars, storeVars>>

\* Lines 61-63: set(key, value), and the value is returned.
GocSet(t, dt) ==
    /\ goc[t].pc = "set"
    /\ now' = now + dt
    /\ cache' = SetEffect(goc[t].key, goc[t].value, now').cache
    /\ access_times' = SetEffect(goc[t].key, goc[t].value, now').access_times
    /\ goc' = [goc EXCEPT ![t].pc = "returned"]
    /\ lastDone' = [key |-> goc[t].key, at |-> now']
    /\ UNCHANGED <<cacheLog, max_size>>
    /\ UNCHANGED <<diskVars, queue, extVars, busVars, appVars, storeVars>>

NextCache ==
    \/ \E key \in CacheKeys, dt \in ClockSteps : CacheGet(key, dt)
    \/ \E key \in CacheKeys, value \in CacheValues, dt \in ClockSteps :
           CacheSet(key, value, dt)

\* The cache used by several tasks at once: each task makes one get_or_compute
\* call, and get, set and clear calls happen beside them. Time passes between
\* the calls; an entry can only expire in the longer pause before a
\* get_or_compute.
DirectCall == Len(cacheLog) < MaxDirectCalls

NextCacheTasks ==
    \/ \E key \in CacheKeys : DirectCall /\ CacheGet(key, 1)
    \/ \E key \in CacheKeys, value \in CacheValues : DirectCall /\ CacheSet(key, value, 1)
    \/ DirectCall /\ CacheClear
    \/ \E t \in Tasks, key \in CacheKeys, dt \in ClockSteps : GocGet(t, key, dt)
    \/ \E t \in Tasks, result \in ComputeResults : GocCompute(t, result)
    \/ \E t \in Tasks : GocSet(t, 1)

\* -------------------------------------------------------- PersistentCache
InitPCache ==
    /\ files = <<>>
    /\ pLog = <<>>

PInstances == {"p1", "p2"}
PKeys == {"a", "b"}
\* Values handed to set(): two that pickle, and one that does not (a lambda).
PValues == {"art1", "art2", "lambda"}
Picklable(v) == v # "lambda"

\* _get_path, lines 79-83: the md5 hex digest of the key names the file
\* (<digest>.cache in cache_dir).
KeyPath(key) ==
    IF key = "a" THEN "0cc175b9c0f1b6a831c399e269772661.cache"
    ELSE "92eb5ffee6ae2fec3ad71c777531578f.cache"

\* pickle.dumps(value), as the content of a file the process may open.
PickleDumps(v) == [kind |-> "pickle", value |-> v, access |-> TRUE]
\* What open(path, "wb") leaves before anything is written.
EmptyFile == [kind |-> "garbage", value |-> "", access |-> TRUE]

\* Opening and reading the file and pickle.loads go through.
Loadable(content) == content.access /\ content.kind = "pickle"

\* The exception leaves get() and the file stays.
OnCorruptFile_Raise(fs, path) == [files |-> fs, res |-> "None", raised |-> TRUE]

\* Lines 93-95: except Exception, path.unlink(); then line 97 returns None.
OnCorruptFile(fs, path) == [files |-> DictDel(fs, path), res |-> "None", raised |-> FALSE]

\* get(key), lines 85-97, on the directory fs.
PGetOutcome(fs, key) ==
    LET path == KeyPath(key)
    IN  IF path \notin DOMAIN fs
        THEN [files |-> fs, res |-> "None", raised |-> FALSE]
        ELSE IF Loadable(fs[path])
        THEN [files |-> fs, res |-> fs[path].value, raised |-> FALSE]
        ELSE OnCorruptFile(fs, path)

\* set(key, value), lines 99-104: open(path, "wb") fails on a file the process
\* may not open and truncates the file otherwise; pickle.dumps(value) runs after
\* that, so a value that does not pickle leaves an empty file behind.
PSetOutcome(fs, key, value) ==
    LET path == KeyPath(key)
    IN  IF path \in DOMAIN fs /\ ~fs[path].access
        THEN [files |-> fs, raised |-> TRUE]
        ELSE IF Picklable(value)
        THEN [files |-> DictSet(fs, path, PickleDumps(value)), raised |-> FALSE]
        ELSE [files |-> DictSet(fs, path, EmptyFile), raised |-> TRUE]

\* Instance inst (every instance works on the same directory) runs get(key).
PGet(inst, key) ==
    /\ Len(pLog) < MaxDiskOps
    /\ files' = PGetOutcome(files, key).files
    /\ pLog' = Append(pLog, [inst |-> inst, op |-> "get", key |-> key,
                             res |-> PGetOutcome(files, key).res,
                             raised |-> PGetOutcome(files, key).raised])
    /\ UNCHANGED <<coreVars, parseVars, adapterVars>>

\* Instance inst runs set(key, value).
PSet(inst, key, value) ==
    /\ Len(pLog) < MaxDiskOps
    /\ files' = PSetOutcome(files, key, value).files
    /\ pLog' = Append(pLog, [inst |-> inst, op |-> "set", key |-> key, res |-> value,
                             raised |-> PSetOutcome(files, key, value).raised])
    /\ UNCHANGED <<coreVars, parseVars, adapterVars>>

\* Something outside the program damages the file of key: its bytes are
\* overwritten ("garbage") or its permissions are taken away ("noaccess").
PDamage(key, how) ==
    /\ Len(pLog) < MaxDiskOps
    /\ KeyPath(key) \in DOMAIN files
    /\ files' = [files EXCEPT ![KeyPath(key)] =
                    IF how = "garbage" THEN [@ EXCEPT !.kind = "garbage", !.value = ""]
                    ELSE [@ EXCEPT !.access = FALSE]]
    /\ pLog' = Append(pLog, [inst |-> "", op |-> how, key |-> key, res |-> "None",
                             raised |-> FALSE])
    /\ UNCHANGED <<coreVars, parseVars, adapterVars>>

NextPCache ==
    \/ \E inst \in PInstances, key \in PKeys : PGet(inst, key)
    \/ \E inst \in PInstances, key \in PKeys, value \in PValues : PSet(inst, key, value)
    \/ \E key \in PKeys, how \in {"garbage", "noaccess"} : PDamage(key, how)

\* ------------------------------------------------------------ _parse_status
\* The output of `cmus-remote -Q` is a list of lines (what lies between the
\* "\n"); a line is a list of pieces, each a single space or a word (a run of
\* characters other than whitespace). A string value is the list of its pieces.
SP == " "

\* str.startswith
StartsWith(line, prefix) ==
    Len(line) >= Len(prefix) /\ SubSeq(line, 1, Len(prefix)) = prefix

\* line.split(): the words.
Words(line) == SelectSeq(line, LAMBDA p : p # SP)

RECURSIVE LStrip(_)
LStrip(line) ==
    IF line # <<>> /\ line[1] = SP THEN LStrip(Tail(line)) ELSE line

RECURSIVE RStrip(_)
RStrip(line) ==
    IF line # <<>> /\ line[Len(line)] = SP
    THEN RStrip(SubSeq(line, 1, Len(line) - 1)) ELSE line

\* What is left of the line after its first k words and the whitespace
\* around them.
RECURSIVE DropWords(_, _)
DropWords(line, k) ==
    IF k = 0 THEN LStrip(line)
    ELSE IF LStrip(line) = <<>> THEN <<>>
    ELSE DropWords(Tail(LStrip(line)), k - 1)

\* line.split(None, 2): at most two words are split off, the rest of the line
\* stays as it is, inner and trailing spaces included.
SplitNone2(line) ==
    IF Len(Words(line)) >= 3
    THEN <<<<Words(line)[1]>>, <<Words(line)[2]>>, DropWords(line, 2)>>
    ELSE [i \in 1..Len(Words(line)) |-> <<Words(line)[i]>>]

\* output.strip(), on the list of lines: whitespace, newlines included, goes
\* from both ends of the text.
RECURSIVE StripHead(_)
StripHead(text) ==
    IF LStrip(text[1]) = <<>> /\ Len(text) > 1 THEN StripHead(Tail(text))
    ELSE <<LStrip(text[1])>> \o Tail(text)

RECURSIVE StripTail(_)
StripTail(text) ==
    IF RStrip(text[Len(text)]) = <<>> /\ Len(text) > 1
    THEN StripTail(SubSeq(text, 1, Len(text) - 1))
    ELSE SubSeq(text, 1, Len(text) - 1) \o <<RStrip(text[Len(text)])>>

StripText(text) == StripTail(StripHead(text))

\* Python values: str (its pieces), int, None.
Str(pieces) == [k |-> "str", s |-> pieces, n |-> 0]
IntV(n) == [k |-> "int", s |-> <<>>, n |-> n]
None == [k |-> "none", s |-> <<>>, n |-> 0]

\* int(word): the words that are decimal numbers, and their values.
IntWords == {"259", "30", "75", "50"}
IntOf(w) ==
    CASE w = "259" -> 259
      [] w = "30" -> 30
      [] w = "75" -> 75
      [] w = "50" -> 50

\* str.lower(), on the words used as tag names.
Lower(w) ==
    CASE w = "Artist" -> "artist"
      [] w = "ALBUM" -> "album"
      [] OTHER -> w

\* The dataclass TrackInfo, lines 10-22.
TrackFields == {"file", "artist", "album", "title", "duration", "position",
                "date", "genre"}

\* PlayerStatus(status="stopped"), lines 25-33 and 118.
StatusDefaults ==
    [status |-> "stopped", track |-> <<>>, volume |-> 100,
     repeat |-> FALSE, shuffle |-> FALSE]

\* Either volume line sets the volume.
SetsVolume_BothChannels(line) == TRUE

\* Line 137, inside the branch of the two volume lines: only vol_left sets the
\* volume.
SetsVolume(line) == StartsWith(line, <<"set", SP, "vol_left", SP>>)

\* The exception ends the loop: what was parsed so far is lost with it.
RaiseIn(acc, exc) == [acc EXCEPT !.raised = exc]

\* One pass of the loop body, lines 122-143, on the locals
\* acc = [raised, st (status), ti (track_info)].
ParseLine(acc, line) ==
    IF acc.raised # "" THEN acc
    ELSE IF StartsWith(line, <<"status", SP>>)
    THEN IF Len(Words(line)) < 2 THEN RaiseIn(acc, "IndexError")
         ELSE [acc EXCEPT !.st.status = Words(line)[2]]
    ELSE IF StartsWith(line, <<"file", SP>>)
    THEN [acc EXCEPT !.ti = DictSet(@, "file", Str(SubSeq(line, 3, Len(line))))]
    ELSE IF StartsWith(line, <<"tag", SP>>)
    THEN IF Len(SplitNone2(line)) >= 3
         THEN [acc EXCEPT !.ti = DictSet(@, Lower(SplitNone2(line)[2][1]),
                                         Str(SplitNone2(line)[3]))]
         ELSE acc
    ELSE IF StartsWith(line, <<"duration", SP>>) \/ StartsWith(line, <<"position", SP>>)
    THEN IF Len(Words(line)) < 2 THEN RaiseIn(acc, "IndexError")
         ELSE IF Words(line)[2] \notin IntWords THEN RaiseIn(acc, "ValueError")
         ELSE [acc EXCEPT !.ti = DictSet(@, line[1], IntV(IntOf(Words(line)[2])))]
    ELSE IF \/ StartsWith(line, <<"set", SP, "vol_left", SP>>)
            \/ StartsWith(line, <<"set", SP, "vol_right", SP>>)
    THEN IF ~SetsVolume(line) THEN acc
         ELSE IF Len(Words(line)) < 3 THEN RaiseIn(acc, "IndexError")
         ELSE IF Words(line)[3] \notin IntWords THEN RaiseIn(acc, "ValueError")
         ELSE [acc EXCEPT !.st.volume = IntOf(Words(line)[3])]
    ELSE IF StartsWith(line, <<"set", SP, "repeat", SP>>)
    THEN IF Len(Words(line)) < 3 THEN RaiseIn(acc, "IndexError")
         ELSE [acc EXCEPT !.st.repeat = (Words(line)[3] = "true")]
    ELSE IF StartsWith(line, <<"set", SP, "shuffle", SP>>)
    THEN IF Len(Words(line)) < 3 THEN RaiseIn(acc, "IndexError")
         ELSE [acc EXCEPT !.st.shuffle = (Words(line)[3] = "true")]
    ELSE acc

RECURSIVE ParseLines(_, _)
ParseLines(acc, lines) ==
    IF lines = <<>> THEN acc
    ELSE ParseLines(ParseLine(acc, lines[1]), Tail(lines))

\* TrackInfo(**track_info): a keyword that is no field of the dataclass is a
\* TypeError; the fields not given keep their default None.
TrackInfo(ti) == [f \in TrackFields |-> IF f \in DOMAIN ti THEN ti[f] ELSE None]

\* track_info.get("file"): the key is there and its string is not empty.
HasFile(ti) == "file" \in DOMAIN ti /\ ti["file"].s # <<>>

\* _parse_status(output), lines 115-148: the exception that ended the call
\* ("" when it returned) and the PlayerStatus it returned.
_parse_status(output) ==
    LET acc == ParseLines([raised |-> "", st |-> StatusDefaults, ti |-> <<>>],
                          StripText(output))
    IN  IF acc.raised # "" THEN [raised |-> acc.raised, status |-> StatusDefaults]
        ELSE IF ~HasFile(acc.ti) THEN [raised |-> "", status |-> acc.st]
        ELSE IF ~(DOMAIN acc.ti \subseteq TrackFields)
        THEN [raised |-> "TypeError", status |-> StatusDefaults]
        ELSE [raised |-> "", status |-> [acc.st EXCEPT !.track = <<TrackInfo(acc.ti)>>]]

\* The lines a status text is made of here. The first group is what the
\* protocol documents; the tag names cover a field of TrackInfo written in two
\* cases and a tag cmus reports that is no field (tracknumber).
RecognisedLines ==
    { <<"status", SP, "playing">>,
      <<"status", SP, "stopped">>,
      <<"file", SP, "/m/song.mp3">>,
      <<"tag", SP, "artist", SP, "Beatles">>,
      <<"tag", SP, "Artist", SP, "Wings">>,
      <<"tag", SP, "title", SP, "Come", SP, "Together">>,
      <<"duration", SP, "259">>,
      <<"position", SP, "30">>,
      <<"set", SP, "vol_left", SP, "75">>,
      <<"set", SP, "vol_right", SP, "50">>,
      <<"set", SP, "repeat", SP, "false">>,
      <<"set", SP, "shuffle", SP, "true">> }

OtherTagLines ==
    { <<"tag", SP, "tracknumber", SP, "30">> }

MalformedLines ==
    { <<"duration", SP, "abc">>,
      <<"set", SP, "vol_left", SP, "x">>,
      <<"status", SP>>,
      <<"set", SP, "aaa_mode", SP, "all">>,
      <<>> }

LinePool == RecognisedLines \cup OtherTagLines \cup MalformedLines

\* The status text of the protocol description, in full.
SampleText ==
    << <<"status", SP, "playing">>,
       <<"file", SP, "/m/song.mp3">>,
       <<"duration", SP, "259">>,
       <<"position", SP, "30">>,
       <<"tag", SP, "artist", SP, "Beatles">>,
       <<"tag", SP, "title", SP, "Come", SP, "Together">>,
       <<"set", SP, "repeat", SP, "false">>,
       <<"set", SP, "shuffle", SP, "true">>,
       <<"set", SP, "vol_left", SP, "75">>,
       <<"set", SP, "vol_right", SP, "50">> >>

Texts ==
    {SampleText} \cup UNION { [1..n -> LinePool] : n \in 1..MaxLines }

NoParse == [raised |-> "", status |-> StatusDefaults]

InitParse ==
    /\ statusText = <<>>
    /\ parsed = NoParse

\* get_status hands an output to _parse_status.
ParseCall(output) ==
    /\ statusText = <<>>
    /\ statusText' = output
    /\ parsed' = _parse_status(output)
    /\ UNCHANGED <<coreVars, pcacheVars, adapterVars>>

NextParse == \E output \in Texts : ParseCall(output)

\* ------------------------------------------------------------ CMUSInterface
\* _find_socket's discovery paths, in the order they are tried (lines 78-82).
SocketPaths == <<"/tmp/cmus-socket", "$HOME/.cmus/socket", "$XDG_RUNTIME_DIR/cmus-socket">>
\* Where a cmus started with `--listen /tmp/cmus-socket` (line 61) listens.
ListenPath == "/tmp/cmus-socket"

\* The cmus processes this adapter may start, and one started by someone else.
OwnProcs == {"own1", "own2"}
OtherProc == "other"
Procs == OwnProcs \cup {OtherProc}

\* The last existing path wins.
FindSocket_Last(socks) ==
    IF \E i \in 1..Len(SocketPaths) : SocketPaths[i] \in DOMAIN socks
    THEN SocketPaths[CHOOSE i \in 1..Len(SocketPaths) :
                        /\ SocketPaths[i] \in DOMAIN socks
                        /\ \A j \in (i + 1)..Len(SocketPaths) :
                               SocketPaths[j] \notin DOMAIN socks]
    ELSE "None"

\* _find_socket, lines 76-89: the first path that exists, else None.
FindSocket(socks) ==
    IF \E i \in 1..Len(SocketPaths) : SocketPaths[i] \in DOMAIN socks
    THEN SocketPaths[CHOOSE i \in 1..Len(SocketPaths) :
                        /\ SocketPaths[i] \in DOMAIN socks
                        /\ \A j \in 1..(i - 1) : SocketPaths[j] \notin DOMAIN socks]
    ELSE "None"

\* The command-issuing calls and the argument list each hands to cmus-remote
\* (command.split(), line 97): execute_command with a command of the caller,
\* get_status (line 112) and the wrappers of lines 151-177.
CommandArgs ==
    [execute_command |-> <<"-C", "player-next">>,
     get_status |-> <<"-Q">>,
     play |-> <<"-p">>,
     pause |-> <<"-u">>,
     stop |-> <<"-s">>,
     next |-> <<"-n">>,
     previous |-> <<"-r">>,
     seek |-> <<"-k", "30">>,
     set_volume |-> <<"-v", "50%">>]
CommandCalls == DOMAIN CommandArgs

\* What a cmus-remote run leaves: its exit status, stdout and stderr.
RemoteRuns ==
    { [rc |-> 0, out |-> "out", err |-> ""],
      [rc |-> 1, out |-> "", err |-> "cmus-remote: cmus is not running"] }

\* An entry of the call log: the call, the exception that ended it ("" when it
\* returned), the message of the exception or the text returned, the
\* PlayerStatus returned (get_status only), the cmus-remote arguments and what
\* the cmus-remote run left (both empty when none was spawned).
LogEntry(op, raised, text, status, argv, run) ==
    [op |-> op, raised |-> raised, text |-> text, status |-> status, argv |-> argv,
     run |-> run]

\* The calls begun so far.
CallsBegun == Len(adapterLog) + (IF connPc = "polling" THEN 1 ELSE 0)

InitAdapter ==
    /\ _connected = FALSE
    /\ _process = "None"
    /\ _socket_path = "None"
    /\ sockets = <<>>
    /\ procs = [p \in Procs |-> "none"]
    /\ connPc = "idle"
    /\ attempts = 0
    /\ adapterLog = <<>>
    /\ remotes = 0
    /\ terminated = {}

\* The sockets left when process p is gone.
WithoutSocketsOf(socks, p) ==
    [path \in {q \in DOMAIN socks : socks[q] # p} |-> socks[path]]

\* Someone else starts a cmus that listens at one of the discovery paths.
OtherStarts(path) ==
    /\ procs[OtherProc] = "none"
    /\ path \notin DOMAIN sockets
    /\ procs' = [procs EXCEPT ![OtherProc] = "running"]
    /\ sockets' = DictSet(sockets, path, OtherProc)
    /\ UNCHANGED <<_connected, _process, _socket_path, connPc, attempts, adapterLog,
                   remotes, terminated>>
    /\ UNCHANGED <<coreVars, pcacheVars, parseVars>>

\* A cmus the adapter started has come up and listens.
OwnListens(p) ==
    /\ procs[p] = "running"
    /\ ListenPath \notin DOMAIN sockets
    /\ sockets' = DictSet(sockets, ListenPath, p)
    /\ UNCHANGED <<_connected, _process, _socket_path, procs, connPc, attempts,
                   adapterLog, remotes, terminated>>
    /\ UNCHANGED <<coreVars, pcacheVars, parseVars>>

\* A cmus exits by itself (the user quits it); its socket goes with it.
ProcExits(p) ==
    /\ procs[p] = "running"
    /\ procs' = [procs EXCEPT ![p] = "exited"]
    /\ sockets' = WithoutSocketsOf(sockets, p)
    /\ UNCHANGED <<_connected, _process, _socket_path, connPc, attempts, adapterLog,
                   remotes, terminated>>
    /\ UNCHANGED <<coreVars, pcacheVars, parseVars>>

\* connect(), lines 45-55, up to the first await of _start_cmus (lines 57-67),
\* called on an adapter that is not connected. create_subprocess_exec either
\* starts the process or raises (started = FALSE: no cmus executable).
Connect(started) ==
    /\ connPc = "idle"
    /\ ~_connected
    /\ CallsBegun < MaxAdapterCalls
    /\ IF FindSocket(sockets) # "None"
       THEN /\ started
            /\ _socket_path' = FindSocket(sockets)
            /\ _connected' = TRUE
            /\ adapterLog' = Append(adapterLog, LogEntry("connect", "", "", <<>>, <<>>, <<>>))
            /\ UNCHANGED <<_process, procs, connPc, attempts>>
       ELSE IF started
       THEN /\ \E p \in OwnProcs : procs[p] = "none"
            /\ _process' = CHOOSE p \in OwnProcs : procs[p] = "none"
            /\ procs' = [procs EXCEPT ![_process'] = "running"]
            /\ connPc' = "polling"
            /\ attempts' = 0
            /\ UNCHANGED <<_connected, _socket_path, adapterLog>>
       ELSE /\ adapterLog' = Append(adapterLog,
                                    LogEntry("connect", "FileNotFoundError", "", <<>>, <<>>, <<>>))
            /\ UNCHANGED <<_connected, _process, _socket_path, procs, connPc, attempts>>
    /\ UNCHANGED <<sockets, remotes, terminated>>
    /\ UNCHANGED <<coreVars, pcacheVars, parseVars>>

\* One pass of the loop of _start_cmus, lines 68-72: the sleep has ended and
\* _find_socket is asked; after the last pass line 74 raises.
ConnectPoll ==
    /\ connPc = "polling"
    /\ IF FindSocket(sockets) # "None"
       THEN /\ _connected' = TRUE
            /\ connPc' = "idle"
            /\ attempts' = 0
            /\ adapterLog' = Append(adapterLog, LogEntry("connect", "", "", <<>>, <<>>, <<>>))
       ELSE IF attempts + 1 >= RetryLimit
       THEN /\ connPc' = "idle"
            /\ attempts' = 0
            /\ adapterLog' = Append(adapterLog,
                   LogEntry("connect", "ConnectionError", "Failed to start CMUS", <<>>, <<>>, <<>>))
            /\ UNCHANGED _connected
       ELSE /\ attempts' = attempts + 1
            /\ UNCHANGED <<_connected, connPc, adapterLog>>
    /\ UNCHANGED <<_process, _socket_path, sockets, procs, remotes, terminated>>
    /\ UNCHANGED <<coreVars, pcacheVars, parseVars>>

\* Every command-issuing call spawns cmus-remote whatever the flag says.
MustBeConnected_Never(flag) == FALSE

\* Line 93: `if not self._connected: raise ConnectionError(...)`.
MustBeConnected(flag) == ~flag

\* The exit status is not looked at.
CommandResult_IgnoreStatus(run) == [raised |-> "", text |-> run.out]

\* Lines 105-108: a non-zero exit status raises RuntimeError with the decoded
\* stderr in its message, otherwise the decoded stdout is returned.
CommandResult(run) ==
    IF run.rc # 0
    THEN [raised |-> "RuntimeError", text |-> run.err]
    ELSE [raised |-> "", text |-> run.out]

\* execute_command(command), lines 91-108, called directly, by get_status
\* (lines 110-113, which parses what it returns) or by a wrapper (lines
\* 151-177); run is what the cmus-remote it spawns leaves.
Command(call, run) ==
    /\ CallsBegun < MaxAdapterCalls
    /\ IF MustBeConnected(_connected)
       THEN /\ run.rc = 0
            /\ adapterLog' = Append(adapterLog,
                   LogEntry(call, "ConnectionError", "Not connected to CMUS", <<>>, <<>>, <<>>))
            /\ UNCHANGED remotes
       ELSE /\ remotes' = remotes + 1
            /\ adapterLog' = Append(adapterLog,
                   LogEntry(call, CommandResult(run).raised, CommandResult(run).text,
                            IF call = "get_status" /\ CommandResult(run).raised = ""
                            THEN <<_parse_status(SampleText).status>> ELSE <<>>,
                            CommandArgs[call], <<run>>))
    /\ UNCHANGED <<_connected, _process, _socket_path, sockets, procs, connPc, attempts,
                   terminated>>
    /\ UNCHANGED <<coreVars, pcacheVars, parseVars>>

\* No process is ever terminated.
ShouldTerminate_Never(proc) == FALSE

\* Line 182: `if self._process:`.
ShouldTerminate(proc) == proc # "None"

\* disconnect(), lines 179-184. terminate() ends a running process; on one
\* that has exited it does nothing or, once the transport is closed, raises
\* ProcessLookupError (lookupError).
Disconnect(lookupError) ==
    /\ CallsBegun < MaxAdapterCalls
    /\ _connected' = FALSE
    /\ IF ~ShouldTerminate(_process)
       THEN /\ ~lookupError
            /\ adapterLog' = Append(adapterLog, LogEntry("disconnect", "", "", <<>>, <<>>, <<>>))
            /\ UNCHANGED <<procs, sockets, terminated>>
       ELSE IF procs[_process] = "running"
       THEN /\ ~lookupError
            /\ procs' = [procs EXCEPT ![_process] = "exited"]
            /\ sockets' = WithoutSocketsOf(sockets, _process)
            /\ terminated' = terminated \cup {_process}
            /\ adapterLog' = Append(adapterLog, LogEntry("disconnect", "", "", <<>>, <<>>, <<>>))
       ELSE /\ adapterLog' = Append(adapterLog,
                   LogEntry("disconnect", IF lookupError THEN "ProcessLookupError" ELSE "",
                            "", <<>>, <<>>, <<>>))
            /\ UNCHANGED <<procs, sockets, terminated>>
    /\ UNCHANGED <<_process, _socket_path, connPc, attempts, remotes>>
    /\ UNCHANGED <<coreVars, pcacheVars, parseVars>>

\* connect() and disconnect() among the processes.
NextLifecycle ==
    \/ \E path \in {SocketPaths[i] : i \in 1..Len(SocketPaths)} : OtherStarts(path)
    \/ \E p \in OwnProcs : OwnListens(p)
    \/ \E p \in Procs : ProcExits(p)
    \/ \E started \in BOOLEAN : Connect(started)
    \/ ConnectPoll
    \/ \E lookupError \in BOOLEAN : Disconnect(lookupError)

NextAdapter ==
    \/ NextLifecycle
    \/ \E call \in CommandCalls, run \in RemoteRuns : Command(call, run)

InitExt == InitPCache /\ InitParse /\ InitAdapter /\ InitProc /\ stopAt = -1

Init ==
    /\ InitBus /\ InitApp /\ InitStore /\ InitDisk /\ InitQueue /\ InitCache
    /\ InitExt

\* The stores whose save and load are checked start with their durable fields set.
InitPersist ==
    /\ InitBus /\ InitApp /\ InitDisk /\ InitQueue /\ InitCache /\ InitExt
    /\ \E f \in PersistStates : InitStoreWith(f)

\* Caches of every capacity from 1 up.
InitCacheTasks ==
    /\ InitBus /\ InitApp /\ InitStore /\ InitDisk /\ InitQueue /\ InitExt
    /\ \E m \in 1..CacheMaxSize : InitCacheWith(m)

\* The application started under every configuration, with or without a saved
\* state, and with no lock file or one left behind.
SavedState == [StoreDefaults EXCEPT !.active_view = "library", !.search_query = "abba"]
Configs == [single_instance : BOOLEAN, auto_save : BOOLEAN]
InitStartup ==
    /\ InitBus /\ InitApp /\ InitStore /\ InitQueue /\ InitCache
    /\ InitPCache /\ InitParse /\ InitAdapter /\ stopAt = -1
    /\ fresh = StoreDefaults /\ loadRaised = FALSE /\ persistPc = "start"
    /\ disk \in {<<>>, <<SaveDoc(SavedState)>>}
    /\ \E cfg \in Configs, content \in {"absent", "dead", "garbage"} :
          InitProcWith(cfg, content)

SpecBus == Init /\ [][NextBus]_vars

\* The event loop runs every task that is ready: a dispatch step that stays
\* possible is eventually taken (handlers are assumed to end).
SpecBusFair == SpecBus /\ WF_vars(DispatchStep)

SpecHist == Init /\ [][NextHist]_vars

SpecApp == Init /\ [][NextApp]_vars

SpecStartup == InitStartup /\ [][NextApp]_vars

\* Instances started beside a lock file that is absent or was left behind.
InitLock ==
    /\ InitBus /\ InitApp /\ InitStore /\ InitDisk /\ InitQueue /\ InitCache
    /\ InitPCache /\ InitParse /\ InitAdapter /\ stopAt = -1
    /\ \E content \in {"absent", "dead", "garbage"} : InitProcWith(ConfigDefaults, content)

SpecLock == InitLock /\ [][NextLock]_vars

\* As for SpecAppFair.
SpecStartupFair ==
    SpecStartup /\ WF_vars(\E saveRaises \in BOOLEAN : Shutdown(saveRaises))
                /\ WF_vars(PollerLoop)

SpecStore == Init /\ [][NextStore]_vars

SpecPersist == InitPersist /\ [][NextPersist]_vars

SpecQueue == Init /\ [][NextQueue]_vars

SpecCache == Init /\ [][NextCache]_vars

SpecCacheTasks == InitCacheTasks /\ [][NextCacheTasks]_vars

SpecPCache == Init /\ [][NextPCache]_vars

SpecParse == Init /\ [][NextParse]_vars

SpecAdapter == Init /\ [][NextAdapter]_vars

SpecLifecycle == Init /\ [][NextLifecycle]_vars

\* The event loop resumes connect() when its sleep of 0.5 s has ended.
SpecLifecycleFair == SpecLifecycle /\ WF_vars(ConnectPoll)

\* The event loop resumes a task whose sleep has ended: the main loop wakes every
\* 0.1 s and, the flag cleared, runs shutdown(); the poller's sleep ends.
SpecAppFair ==
    SpecApp /\ WF_vars(\E saveRaises \in BOOLEAN : Shutdown(saveRaises)) /\ WF_vars(PollerLoop)

\* ------------------------------------------------------------------ claims
DispatchComplete == event # NoEvent /\ busPc \in {"get", "returned"}

\* C1: a handler that raises does not stop dispatch. The dispatch task is never
\* ended by a handler's exception, and once the dispatch of an event is over
\* (its registry untouched meanwhile) every handler subscribed behind a failing
\* one was called for that event too; this holds for every event, so also for
\* the events after one whose handler failed.
C1_HandlerIsolation ==
    /\ busPc # "failed"
    /\ (DispatchComplete /\ ~dirty) =>
          \A i \in 1..Len(snapshot) :
              snapshot[i] \in FailingHandlers =>
                  \A j \in (i + 1)..Len(snapshot) :
                      j <= Len(invoked) /\ invoked[j] = snapshot[j]

\* A failing handler was called for event 1 and again for event 2, and the
\* handler subscribed behind it was called for event 2 as well.
C1_Witness ==
    /\ DispatchComplete /\ ~dirty
    /\ event.id = 2
    /\ invoked = <<"h1", "h2">>
    /\ seen["h1"] = <<1, 2>>

\* C2: every handler is called with the events of its type in emission order
\* (the ids it saw never decrease), and the queue holds the events not yet
\* dequeued in emission order: it is first in, first out.
C2_EmissionOrder ==
    /\ \A h \in Handlers :
          \A i \in 1..Len(seen[h]), j \in 1..Len(seen[h]) :
              i < j => seen[h][i] <= seen[h][j]
    /\ \A i \in 1..Len(_queue) : _queue[i].id = nEmitted - Len(_queue) + i

\* One subscriber saw event 1 and then event 2.
C2_Witness == seen["h2"] = <<1, 2>> /\ _queue = <<>>

\* C3: when the dispatch of an event is over, the handlers called for it are the
\* handlers registered for its type when it was dequeued, each once per
\* subscription and in subscription order, and nothing else; while it is under
\* way the handlers called are a prefix of that list.
C3_EveryHandlerOnceInOrder ==
    /\ (DispatchComplete /\ ~dirty) => invoked = snapshot
    /\ (Dispatching /\ ~dirty) =>
          /\ dpos <= Len(snapshot)
          /\ invoked = SubSeq(snapshot, 1, dpos)

\* An event of one type was dispatched to its two subscribers in subscription
\* order while another handler is subscribed to the other type only.
C3_Witness ==
    /\ DispatchComplete /\ ~dirty
    /\ event.type = "track_changed"
    /\ invoked = <<"h2", "h1">>
    /\ nRegOps = 3
    /\ HandlersGet("volume_changed") = <<"h2">>

\* C4: after stop_processing() on a running loop, process_events returns.
C4_StopEndsLoop ==
    [](((busPc \in {"get", "for", "in_handler"}) /\ ~_processing)
          => <>(busPc \in {"returned", "cancelled"}))

\* C5: the history holds the last min(n, 100) emitted events in emission order
\* and never more than its capacity.
C5_BoundedHistory ==
    /\ Len(_history) = Min(nEmitted, HistorySize)
    /\ Len(_history) <= HistorySize
    /\ \A i \in 1..Len(_history) : _history[i].id = nEmitted - Len(_history) + i

\* Two events more than the capacity were emitted: the two oldest are gone.
C5_Witness == nEmitted = HistorySize + 2 /\ _history[1].id = 3

\* C6: emit never waits for a handler. It can complete in every state (no
\* dispatch loop running, a handler suspended, the loop ended), and the step
\* itself calls no handler and moves the dispatch loop nowhere.
C6_EmitNeverBlocks ==
    /\ [](nEmitted < MaxEmit => \A ty \in EventTypes : ENABLED Emit(ty))
    /\ [][nEmitted' # nEmitted =>
            /\ Len(_queue') = Len(_queue) + 1
            /\ UNCHANGED <<busPc, invoked, seen, dpos, event>>]_vars

\* Two events were emitted and queued while no dispatch loop was running.
C6_Witness == busPc = "idle" /\ nEmitted = 2 /\ Len(_queue) = 2

PollerActive == pollPc \in {"created", "polling", "sleep"}

\* C7: an exception in a poll cycle never ends the poller: the task is never
\* ended by an exception, the sleep that follows a failed cycle is the back-off
\* interval (and not the refresh interval), and when that sleep ends with the
\* flag still set the poller polls again.
C7_PollErrorsContained ==
    /\ [](pollPc # "failed")
    /\ []((pollPc = "sleep" /\ lastPoll \in {"error", "ok_then_error"})
              => (sleepLen = BackoffInterval /\ sleepLen # RefreshRate))
    /\ [][(pollPc = "sleep" /\ pollPc' \notin {"sleep", "cancelled"} /\ _running)
              => pollPc' = "polling"]_vars

\* The poller polls again after a cycle that failed.
C7_Witness == pollPc = "polling" /\ lastPoll = "error" /\ _running

\* C8: each successful poll stores the returned PlayerStatus in the store and
\* notifies every observer of the store of the change of player_status.
C8_PollNotifiesObservers ==
    [][(pollPc = "polling" /\ lastPoll' \in {"ok", "ok_then_error"} /\ pollPc' = "sleep")
          => /\ fields'["player_status"] = polled'
             /\ Len(notified') = Len(notified) + Len(_observers)
             /\ \A i \in 1..Len(_observers) :
                   notified'[Len(notified) + i] =
                       [o |-> _observers[i], keys |-> {"player_status"}]]_vars

\* C9: the poller stops only with the flag cleared, or cancelled by shutdown; no
\* poll is started while the flag is cleared; and once it is cleared the loop
\* ends.
C9_PollerStopsOnFlag ==
    /\ [](pollPc = "stopped" => ~_running)
    /\ [](pollPc = "cancelled" => (~_running /\ appPc = "exited"))
    /\ [][(pollPc # "polling" /\ pollPc' = "polling") => _running]_vars
    /\ []((PollerActive /\ ~_running) => <>(pollPc \in {"stopped", "cancelled"}))

\* The poller found the flag cleared when its sleep ended, after a poll, and left
\* the loop before shutdown() cancelled it.
C9_Witness == pollPc = "stopped" /\ appPc = "main" /\ lastPoll = "ok"

\* C10: an observer that calls update() from inside its notification does not
\* deadlock: whenever an update() call is under way, some call can take its next
\* step.
C10_ReentrantUpdateNoDeadlock ==
    (\E t \in Tasks : upd[t] # <<>>) => ENABLED UpdateProgress

\* An update() call of task t takes the lock in this step and runs lines 47-49.
ApplyStep(t) ==
    /\ upd'[t] # <<>>
    /\ upd'[t][Len(upd'[t])].pc = "notify"
    /\ \/ upd[t] = <<>>
       \/ Len(upd[t]) = Len(upd'[t]) /\ TopFrame(t).pc = "wait"

AppliedArgs(t) == upd'[t][Len(upd'[t])].kw

\* C11: reads of the store are read-consistent. Whenever another task can run
\* (any state of the model is such a point), every call that has passed line 46
\* has all of its named fields in place, and the fields never change except by
\* one step that puts every named field of one call in place at once: no reader
\* sees some fields of a call applied and others not.
C11_ReadConsistent ==
    /\ [](\A t \in Tasks : \A j \in 1..Len(upd[t]) :
            upd[t][j].pc \in {"notify", "in_observer"} =>
                \A k \in DOMAIN upd[t][j].kw \cap DOMAIN fields :
                    fields[k] = upd[t][j].kw[k])
    /\ [][fields' # fields =>
            \E t \in Tasks :
                /\ ApplyStep(t)
                /\ \A k \in DOMAIN AppliedArgs(t) \cap DOMAIN fields :
                       fields'[k] = AppliedArgs(t)[k]]_vars

\* A call that names two fields holds the lock inside an observer while another
\* call waits: both fields are in place.
C11_Witness ==
    \E t \in Tasks :
        /\ upd[t] # <<>>
        /\ upd[t][1].pc = "in_observer"
        /\ upd[t][1].kw = [active_view |-> "queue", search_query |-> "abba"]
        /\ fields["active_view"] = "queue"
        /\ fields["search_query"] = "abba"
        /\ _lock.waiters # <<>>

\* C12: update() sets exactly the named fields: the step that applies a call
\* gives every attribute the call names the value passed, and leaves every other
\* data field and, unless it is named itself, the observer list as they were.
C12_ExactlyNamedFields ==
    [][\A t \in Tasks :
          ApplyStep(t) =>
              /\ \A k \in DOMAIN fields :
                     fields'[k] = IF k \in DOMAIN AppliedArgs(t)
                                  THEN AppliedArgs(t)[k] ELSE fields[k]
              /\ "_observers" \notin DOMAIN AppliedArgs(t) =>
                     _observers' = _observers]_vars

\* A second call changed active_view only: search_query keeps the value of the
\* first call and the observers are still subscribed.
C12_Witness ==
    /\ nUpdates = 2
    /\ fields["active_view"] = "library"
    /\ fields["search_query"] = "abba"
    /\ _observers # <<>>
    /\ \E t \in Tasks : upd[t] # <<>> /\ upd[t][1].kw = [active_view |-> "library"]

\* C13: update() ignores every name that is not a declared data field, so that
\* no call ever replaces the observer list.
C13_NonFieldNamesIgnored ==
    [][\A t \in Tasks : ApplyStep(t) => _observers' = _observers]_vars

\* C14: every update() calls every subscribed observer once, in subscription
\* order: when a call ends, it has gone through the whole observer list.
C14_EveryObserverNotified ==
    [][\A t \in Tasks :
          (Len(upd[t]) = 1 /\ upd'[t] = <<>>) =>
              (IF notified' = notified THEN upd[t][1].i ELSE upd[t][1].i + 1)
                  = Len(_observers)]_vars

\* The durable subset of a store: playlists, statistics, the last 1000 entries of
\* the play history, the active view and the search text.
LastEntries(h) ==
    [i \in 1..Min(Len(h), HistoryKeep) |-> h[Len(h) - Min(Len(h), HistoryKeep) + i]]

Durable(f) ==
    [playlists |-> f.playlists, statistics |-> f.statistics,
     play_history |-> LastEntries(f.play_history),
     active_view |-> f.active_view, search_query |-> f.search_query]

\* Every value of the durable fields is one that JSON hands back equal.
JsonRepresentable(f) ==
    \A k \in DOMAIN f.statistics : JsonValue(f.statistics[k]) = f.statistics[k]

\* C16 as stated: for every store state, save followed by load into a fresh
\* store gives the fresh store a durable subset equal to that of the saved one.
C16_RoundTripEveryState ==
    (persistPc = "loaded_fresh" /\ disk # <<>>) => Durable(fresh) = Durable(fields)

\* C16, amended: for every store state whose durable fields hold only values
\* that JSON represents (maps with string keys, lists, strings, numbers), save
\* followed by load into a fresh store gives an equal durable subset.
C16_RoundTripJsonValues ==
    (persistPc = "loaded_fresh" /\ disk # <<>> /\ JsonRepresentable(fields)) =>
        Durable(fresh) = Durable(fields)

\* A store with a playlist, a statistic, 1002 plays and a changed view made the
\* round trip.
C16_Witness ==
    /\ persistPc = "loaded_fresh"
    /\ disk # <<>>
    /\ JsonRepresentable(fields)
    /\ Len(fields.play_history) = HistoryKeep + 2
    /\ DOMAIN fields.playlists # {}
    /\ DOMAIN fields.statistics # {}
    /\ fields.active_view = "library"
    /\ fresh.active_view = "library"
    /\ Len(fresh.play_history) = HistoryKeep

\* C17: load() on a path where no file exists raises nothing and leaves every
\* field of the loading store as it was.
C17_LoadMissingFile ==
    [][(disk = <<>> /\ persistPc \in {"start", "saved"}
           /\ persistPc' \in {"loaded_self", "loaded_fresh"}) =>
          (fields' = fields /\ fresh' = fresh /\ ~loadRaised')]_vars

\* A store with history and a changed view loaded from a missing file.
C17_Witness ==
    /\ persistPc = "loaded_self"
    /\ disk = <<>>
    /\ ~loadRaised
    /\ fields.active_view = "library"
    /\ Len(fields.play_history) = 2

\* C18: save() writes the last min(n, 1000) entries of a play history of n
\* entries, in their order, and changes nothing in memory.
C18_SaveKeepsLastThousand ==
    [][(persistPc = "start" /\ persistPc' = "saved") =>
          /\ fields' = fields
          /\ disk' # <<>>
          /\ disk'[1].play_history = LastEntries(fields.play_history)]_vars

\* A history of 1002 entries was saved: entries 3..1002 are on disk.
C18_Witness ==
    /\ persistPc = "saved"
    /\ Len(fields.play_history) = HistoryKeep + 2
    /\ Len(disk[1].play_history) = HistoryKeep
    /\ disk[1].play_history[1] = 3
    /\ disk[1].play_history[HistoryKeep] = HistoryKeep + 2

\* C15: only operations of the State Store change the canonical snapshot (player
\* status, queue contents, durable maps): the code that last assigned a field of
\* the store is always a method of the store, never the Poller or the
\* QueueManager writing the field itself.
C15_OnlyStoreWritesFields == writer \in {"none", "AppState"}

\* The call made in this step.
CacheCall == cacheLog'[Len(cacheLog')]

\* C19: the cache evicts by least recent access. A set() on a full cache removes
\* the entry whose last access (get hit or set) is the oldest of all, and no
\* other entry; with capacity 2, after set(a), set(b), get(a), set(c) the cache
\* holds a and c, although a was inserted first.
C19_EvictsLeastRecentlyUsed ==
    /\ [][(cacheLog' # cacheLog /\ CacheCall.op = "set"
              /\ Cardinality(DOMAIN cache) >= CacheMaxSize) =>
             \E e \in DOMAIN cache :
                 /\ \A j \in DOMAIN cache : access_times[e] <= access_times[j]
                 /\ DOMAIN cache' = (DOMAIN cache \ {e}) \cup {CacheCall.key}]_vars
    /\ []((CacheMaxSize = 2 /\ Len(cacheLog) = 4
              /\ [i \in 1..4 |-> <<cacheLog[i].op, cacheLog[i].key>>]
                   = << <<"set", "a">>, <<"set", "b">>, <<"get", "a">>, <<"set", "c">> >>
              /\ cacheLog[3].res # "None")
            => DOMAIN cache = {"a", "c"})

\* set(a), set(b), get(a) hit, set(c) on a cache of capacity 2: b was evicted.
C19_Witness ==
    /\ Len(cacheLog) = 4
    /\ [i \in 1..4 |-> <<cacheLog[i].op, cacheLog[i].key>>]
         = << <<"set", "a">>, <<"set", "b">>, <<"get", "a">>, <<"set", "c">> >>
    /\ cacheLog[3].res = "x"
    /\ DOMAIN cache = {"a", "c"}

\* C20: the time to live runs from the last access. A get() of an entry last
\* accessed more than ttl ago returns None and removes the entry; a get() of an
\* entry accessed less than ttl ago returns the value and makes the time of the
\* call the entry's access time.
C20_TtlFromLastAccess ==
    [][(cacheLog' # cacheLog /\ CacheCall.op = "get" /\ CacheCall.key \in DOMAIN cache) =>
          LET k == CacheCall.key
              age == now' - access_times[k]
          IN  /\ age > CacheTtl =>
                     /\ CacheCall.res = "None"
                     /\ k \notin DOMAIN cache'
                     /\ k \notin DOMAIN access_times'
              /\ age < CacheTtl =>
                     /\ CacheCall.res = cache[k]
                     /\ k \in DOMAIN cache'
                     /\ access_times'[k] = now']_vars

\* a was set at time T, read within the ttl (which restarted it), and then read
\* again more than ttl after that read: the second read found nothing.
C20_Witness ==
    /\ Len(cacheLog) = 3
    /\ cacheLog[1] = [op |-> "set", key |-> "a", res |-> "None"]
    /\ cacheLog[2] = [op |-> "get", key |-> "a", res |-> "x"]
    /\ cacheLog[3] = [op |-> "get", key |-> "a", res |-> "None"]
    /\ now = 1 + 1 + (CacheTtl + 1)
    /\ "a" \notin DOMAIN cache

\* C21: the in-memory cache is capacity-bounded: whatever get, set,
\* get_or_compute and clear calls the tasks make and however they interleave,
\* the cache never holds more than max_size entries (max_size >= 1), and every
\* entry has its access time.
C21_CapacityBounded ==
    /\ Cardinality(DOMAIN cache) <= max_size
    /\ DOMAIN access_times = DOMAIN cache

\* A cache of capacity 1 is full with the key of a get_or_compute call that has
\* returned, while the call of another task for another key is about to store.
C21_Witness ==
    /\ max_size = 1
    /\ Cardinality(DOMAIN cache) = 1
    /\ lastDone.key \in DOMAIN cache
    /\ \E t \in Tasks : goc[t].pc = "set" /\ goc[t].key \notin DOMAIN cache

\* C22: a get_or_compute call that follows immediately (as the next operation
\* on the cache, within the ttl) on a get_or_compute call for the same key does
\* not call the compute function, whatever the first call's function returned.
C22_ComputeOncePerKey ==
    [][\A t \in Tasks :
          (goc[t].pc = "idle" /\ goc'[t].pc = "compute") =>
              ~(lastDone.key = goc'[t].key /\ now' - lastDone.at < CacheTtl)]_vars

\* The call on the disk cache made in this step.
PCall == pLog'[Len(pLog')]

\* C23: a get() of a key whose file is corrupted or cannot be read returns
\* None, deletes the file and raises nothing; a get() that follows a set(key,
\* value) which left an intact file returns value, from whichever instance on
\* the directory it is made.
C23_DiskCacheCorruptionIsMiss ==
    /\ [][(pLog' # pLog /\ PCall.op = "get" /\ KeyPath(PCall.key) \in DOMAIN files) =>
             LET path == KeyPath(PCall.key)
             IN  /\ ~PCall.raised
                 /\ (files[path].kind = "garbage" \/ ~files[path].access) =>
                        (PCall.res = "None" /\ path \notin DOMAIN files')
                 /\ (files[path].kind = "pickle" /\ files[path].access) =>
                        (PCall.res = files[path].value /\ files' = files)]_vars
    /\ [](\A i \in 1..(Len(pLog) - 1) :
             (pLog[i].op = "set" /\ ~pLog[i].raised /\ pLog[i + 1].op = "get"
                 /\ pLog[i + 1].key = pLog[i].key) =>
                 (pLog[i + 1].res = pLog[i].res /\ ~pLog[i + 1].raised))

\* p1 stored art1 under a, the file was overwritten with garbage, and the get()
\* of p2 returned None and removed the file.
C23_Witness ==
    /\ Len(pLog) = 3
    /\ pLog[1] = [inst |-> "p1", op |-> "set", key |-> "a", res |-> "art1", raised |-> FALSE]
    /\ pLog[2].op = "garbage"
    /\ pLog[3] = [inst |-> "p2", op |-> "get", key |-> "a", res |-> "None", raised |-> FALSE]
    /\ KeyPath("a") \notin DOMAIN files

\* The call of the adapter that ended in this step.
AdapterCall == adapterLog'[Len(adapterLog')]
CallEnds == adapterLog' # adapterLog

\* The last connect() or disconnect() that ended was a connect() that returned.
ConnectedByLog ==
    \E i \in 1..Len(adapterLog) :
        /\ adapterLog[i].op = "connect" /\ adapterLog[i].raised = ""
        /\ \A j \in (i + 1)..Len(adapterLog) :
               adapterLog[j].op \notin {"connect", "disconnect"}

C27_NonZeroExitNotFatal ==
    [][(CallEnds /\ AdapterCall.op \in CommandCalls /\ _connected) =>
          /\ remotes' = remotes + 1
          /\ AdapterCall.run # <<>>
          /\ AdapterCall.argv = CommandArgs[AdapterCall.op]
          /\ IF AdapterCall.run[1].rc # 0
             THEN /\ AdapterCall.raised = "RuntimeError"
                  /\ AdapterCall.text = AdapterCall.run[1].err
             ELSE /\ AdapterCall.raised = ""
                  /\ AdapterCall.text = AdapterCall.run[1].out
          /\ _connected']_vars

\* A command failed with a non-zero exit status and the next one returned
\* stdout.
C27_Witness ==
    /\ Len(adapterLog) = 3
    /\ adapterLog[2].op \in CommandCalls /\ adapterLog[2].raised = "RuntimeError"
    /\ adapterLog[3].op \in CommandCalls /\ adapterLog[3].raised = ""
    /\ adapterLog[3].text = "out"
    /\ remotes = 2
    /\ _connected

\* What the status protocol says a text of well-formed lines means: each line
\* is `<key> <value>`, `tag <name> <value>` or `set <option> <value>`, and the
\* last line of a key counts.
LineKey(line) ==
    IF line[1] = "tag" THEN Lower(line[3])
    ELSE IF line[1] = "set" THEN line[3]
    ELSE line[1]

LineValue(line) ==
    IF line[1] \in {"tag", "set"} THEN SubSeq(line, 5, Len(line))
    ELSE SubSeq(line, 3, Len(line))

HasLine(text, key) == \E i \in 1..Len(text) : LineKey(text[i]) = key

LastValue(text, key) ==
    LineValue(text[CHOOSE i \in 1..Len(text) :
                      /\ LineKey(text[i]) = key
                      /\ \A j \in (i + 1)..Len(text) : LineKey(text[j]) # key])

ExpectedTrack(text) ==
    [f \in TrackFields |->
        IF ~HasLine(text, f) THEN None
        ELSE IF f \in {"duration", "position"} THEN IntV(IntOf(LastValue(text, f)[1]))
        ELSE Str(LastValue(text, f))]

ExpectedStatus(text) ==
    [status |-> IF HasLine(text, "status") THEN LastValue(text, "status")[1]
                ELSE "stopped",
     track |-> IF HasLine(text, "file") THEN <<ExpectedTrack(text)>> ELSE <<>>,
     volume |-> IF HasLine(text, "vol_left") THEN IntOf(LastValue(text, "vol_left")[1])
                ELSE 100,
     repeat |-> HasLine(text, "repeat") /\ LastValue(text, "repeat") = <<"true">>,
     shuffle |-> HasLine(text, "shuffle") /\ LastValue(text, "shuffle") = <<"true">>]

LinesFrom(text, pool) == \A i \in 1..Len(text) : text[i] \in pool

\* C28: for a text of well-formed lines, tag lines of any name included, the
\* call returns; with a file line the track is there and track.file is the
\* path, without one the track is null.
C28_FileLineDecidesTrack ==
    (statusText # <<>> /\ LinesFrom(statusText, RecognisedLines \cup OtherTagLines)) =>
        /\ parsed.raised = ""
        /\ IF HasLine(statusText, "file")
           THEN /\ parsed.status.track # <<>>
                /\ parsed.status.track[1].file = Str(LastValue(statusText, "file"))
           ELSE parsed.status.track = <<>>

\* C29: no line makes the call raise, and the result is what the recognised
\* lines of the text say, the other lines being skipped.
C29_MalformedLinesSkipped ==
    (statusText # <<>> /\ LinesFrom(statusText, RecognisedLines \cup MalformedLines)) =>
        /\ parsed.raised = ""
        /\ parsed.status =
               ExpectedStatus(SelectSeq(statusText, LAMBDA l : l \in RecognisedLines))

\* C30: for a text of recognised lines every field of the result is the value
\* of its (last) line: status, track.file, the tag fields under their
\* lower-cased names with the rest of the line, duration and position as
\* integers, the volume from vol_left alone, repeat and shuffle true exactly
\* for "true"; a field without a line has its default. The sample text of the
\* protocol gives the status of the description.
C30_FieldsEqualLineValues ==
    /\ (statusText # <<>> /\ LinesFrom(statusText, RecognisedLines)) =>
           parsed = [raised |-> "", status |-> ExpectedStatus(statusText)]
    /\ statusText = SampleText =>
           /\ parsed.raised = ""
           /\ parsed.status.status = "playing"
           /\ parsed.status.volume = 75
           /\ parsed.status.shuffle
           /\ ~parsed.status.repeat
           /\ parsed.status.track =
                  << [file |-> Str(<<"/m/song.mp3">>), artist |-> Str(<<"Beatles">>),
                      title |-> Str(<<"Come", SP, "Together">>),
                      duration |-> IntV(259), position |-> IntV(30),
                      album |-> None, date |-> None, genre |-> None] >>

\* The sample text was parsed: its vol_right line comes after its vol_left
\* line, and the title holds a space.
C30_Witness ==
    /\ statusText = SampleText
    /\ parsed.status.volume = 75
    /\ parsed.status.track # <<>>
    /\ parsed.status.track[1].title.s = <<"Come", SP, "Together">>

\* The value of the first line of the key.
FirstValue(text, key) ==
    LineValue(text[CHOOSE i \in 1..Len(text) :
                      /\ LineKey(text[i]) = key
                      /\ \A j \in 1..(i - 1) : LineKey(text[j]) # key])

\* C32: for a text of recognised lines, each field set by a non-tag prefix
\* (status, file, duration, position, set vol_left, set repeat, set shuffle)
\* has the value of the first line with that prefix.
C32_FirstLineWins ==
    (statusText # <<>> /\ LinesFrom(statusText, RecognisedLines)) =>
        /\ parsed.raised = ""
        /\ HasLine(statusText, "status") =>
               parsed.status.status = FirstValue(statusText, "status")[1]
        /\ HasLine(statusText, "vol_left") =>
               parsed.status.volume = IntOf(FirstValue(statusText, "vol_left")[1])
        /\ HasLine(statusText, "repeat") =>
               parsed.status.repeat = (FirstValue(statusText, "repeat") = <<"true">>)
        /\ HasLine(statusText, "shuffle") =>
               parsed.status.shuffle = (FirstValue(statusText, "shuffle") = <<"true">>)
        /\ HasLine(statusText, "file") =>
               /\ parsed.status.track # <<>>
               /\ parsed.status.track[1].file = Str(FirstValue(statusText, "file"))
               /\ \A f \in {"duration", "position"} :
                      HasLine(statusText, f) =>
                          parsed.status.track[1][f] =
                              IntV(IntOf(FirstValue(statusText, f)[1]))

\* C33: a PlayerStatus the parser returns for a text of recognised lines has
\* no track when its status is stopped.
C33_StoppedHasNoTrack ==
    (statusText # <<>> /\ LinesFrom(statusText, RecognisedLines) /\ parsed.raised = "") =>
        (parsed.status.status = "stopped" => parsed.status.track = <<>>)

\* C39: the current_queue of the store is the list of the tracks of the
\* manager's queue, in the same order, after every operation of the manager.
C39_StoreQueueInSync == fields.current_queue = queue

\* C38: a get_or_compute call does not start the compute function for a key
\* while the compute function another call started for that key is still
\* suspended.
C38_SingleComputation ==
    [][\A t \in Tasks :
          (goc[t].pc = "idle" /\ goc'[t].pc = "compute") =>
              ~\E u \in Tasks \ {t} :
                  goc[u].pc = "compute" /\ goc[u].key = goc'[t].key]_vars

\* How often handler h is in the list.
Occurrences(list, h) == Cardinality({i \in 1..Len(list) : list[i] = h})

\* C35: when the dispatch of an event is over, every handler that was
\* registered (once) for its type when it was dequeued and still is has been
\* called for it exactly once, whatever was subscribed or unsubscribed while a
\* handler was being invoked.
C35_DispatchUndisturbed ==
    DispatchComplete =>
        \A h \in Handlers :
            (Occurrences(snapshot, h) = 1 /\ Occurrences(HandlersGet(event.type), h) = 1)
                => Occurrences(invoked, h) = 1

\* C36: no handler is ever called with an event that was emitted after
\* stop_processing() was called, whether the call came before or after
\* process_events started to run.
C36_NoDispatchAfterStop ==
    stopAt # -1 =>
        \A h \in Handlers : \A i \in 1..Len(seen[h]) : seen[h][i] <= stopAt

\* C31: a connect() that raises does not end initialize(): the application is
\* never ended by it; when initialize() has returned without a connection the
\* saved state is loaded, the signal handler can run and run() can start; and as
\* long as the adapter is not connected the poller issues no get_status and
\* player_status keeps its value.
C31_StartsDisconnected ==
    /\ [](appPc # "crashed")
    /\ []((appPc = "initialized" /\ ~connected)
             => /\ fields = LoadOutcome(StoreDefaults, disk).fields
                /\ ENABLED Signal
                /\ ENABLED Run)
    /\ [][~connected => /\ pollPc' # "polling"
                        /\ polled' = polled
                        /\ fields'["player_status"] = fields["player_status"]]_vars

\* run() is under way after a connect() that raised: the poller has skipped a
\* poll and sleeps, the saved state is in the store.
C31_Witness ==
    /\ appPc = "main" /\ _running /\ ~connected
    /\ pollPc = "sleep" /\ lastPoll = "skipped"
    /\ fields["player_status"] = StoreDefaults["player_status"]
    /\ disk # <<>> /\ fields["active_view"] = "library"

\* The background tasks that still run.
TasksRunning ==
    \/ pollPc \in {"created", "polling", "sleep"}
    \/ busPc \in {"get", "for", "in_handler"}
    \/ watchPc = "running"

\* shutdown() has run to its end or to the line that raised.
ShutdownRan == appPc = "exited"

\* Every shutdown() ends normally with the tasks cancelled, the adapter
\* disconnected and the lock file removed.
C37_ShutdownCleansUp ==
    ShutdownRan => /\ shutdownRaised = "no"
                   /\ ~TasksRunning
                   /\ ~connected
                   /\ lockFile = "absent"

\* C37: a shutdown request is always followed by a run of shutdown(), and every
\* shutdown() ends with the background tasks cancelled, the adapter
\* disconnected and the lock file removed, whether or not the save or a
\* background task failed.
C37_ShutdownAlwaysHappens ==
    /\ [](requested => <>ShutdownRan)
    /\ []C37_ShutdownCleansUp

\* The instances that got past _ensure_single_instance and still run.
Running == {i \in Instances : instPc[i] = "running"}

\* C34: with single_instance on at most one instance runs at a time, also when
\* instances start concurrently, and no start is ended by a lock file that was
\* left behind or is invalid.
C34_AtMostOneInstance ==
    /\ Cardinality(Running) <= 1
    /\ \A i \in Instances : instPc[i] # "crashed"

============================================================================
